--------------------------- MODULE ServicesProofs ---------------------------
(***************************************************************************)
(* Proofs about seven services that share no state, for all their          *)
(* constants: how long a guest keeps a session, what a reconciliation      *)
(* report says, what the screens of the shop are told, when an order can   *)
(* be picked up, which default addresses concurrent requests leave, what a *)
(* client shows that is told that no advertisement has changed, and what   *)
(* an order costs after a quote.                                           *)
(***************************************************************************)
EXTENDS Customers, Reconciliation, MerchantNotifier, ReservationPlan, UserAddresses,
        Advertisements, Pricing, FiniteSetTheorems, WellFoundedInduction, TLAPS

-----------------------------------------------------------------------------
(* Customers: a guest keeps a session for as long as was answered, for any *)
(* number of sessions and concurrent requests, any time to live and any    *)
(* time that a request takes.                                              *)

VisitState ==
  [at : {"idle", "renew", "insert"}, session : SUBSET GuestToken, since : Nat, expiry : Nat]

GuestTypes ==
  /\ minute \in Nat \ {0}
  /\ guests \in [GuestToken -> Nat] /\ promised \in [GuestToken -> Nat]
  /\ visit \in [GuestRequest -> VisitState]

\* The expiry that a request is about to write was worked out a short time ago.
VisitsFresh ==
  \A v \in GuestRequest : visit[v].at # "idle" =>
    /\ visit[v].expiry = visit[v].since + SessionTTL
    /\ visit[v].since <= minute /\ minute <= visit[v].since + RequestTime

\* So what is written is behind the latest promise by that time at most.
PromisesKept ==
  \A t \in GuestToken : /\ promised[t] <= minute + SessionTTL
                        /\ promised[t] <= guests[t] + RequestTime

GuestInv == GuestTypes /\ VisitsFresh /\ PromisesKept

(* Lemma: nothing is promised at the start.                                *)
LEMMA GuestInit == CustomersInit => GuestInv
  <1> SUFFICES ASSUME CustomersInit PROVE GuestInv
    OBVIOUS
  <1>1. NoVisit \in VisitState
    BY DEF NoVisit, VisitState
  <1>2. GuestTypes
    BY <1>1 DEF CustomersInit, GuestTypes
  <1>3. VisitsFresh
    BY DEF CustomersInit, VisitsFresh, NoVisit
  <1>4. PromisesKept
    BY CustomerAssumption DEF CustomersInit, PromisesKept
  <1> QED
    BY <1>2, <1>3, <1>4 DEF GuestInv

(* Lemma: a request that begins works out the expiry of this minute.       *)
LEMMA VisitBegins ==
  ASSUME GuestInv, NEW v \in GuestRequest, NEW session \in SUBSET GuestToken,
         NEW step \in {"renew", "insert"},
         Visit(v, [at |-> step, session |-> session, since |-> minute,
                   expiry |-> minute + SessionTTL]),
         UNCHANGED <<minute, guests, promised>>
  PROVE  GuestInv'
  <1> DEFINE v1 == [at |-> step, session |-> session, since |-> minute,
                    expiry |-> minute + SessionTTL]
  <1>1. v1 \in VisitState
    BY CustomerAssumption DEF VisitState, GuestInv, GuestTypes
  <1>2. visit' = [visit EXCEPT ![v] = v1]
    BY DEF Visit
  <1> HIDE DEF v1
  <1>3. GuestTypes'
    BY <1>1, <1>2 DEF GuestInv, GuestTypes
  <1>4. VisitsFresh'
    <2> SUFFICES ASSUME NEW w \in GuestRequest, visit'[w].at # "idle"
                 PROVE  /\ visit'[w].expiry = visit'[w].since + SessionTTL
                        /\ visit'[w].since <= minute'
                        /\ minute' <= visit'[w].since + RequestTime
      BY DEF VisitsFresh
    <2>1. CASE w = v
      <3>1. visit'[w] = v1
        BY <1>2, <2>1 DEF GuestInv, GuestTypes
      <3> QED
        BY <3>1, CustomerAssumption DEF v1, GuestInv, GuestTypes
    <2>2. CASE w # v
      BY <1>2, <2>2 DEF GuestInv, GuestTypes, VisitsFresh
    <2> QED
      BY <2>1, <2>2
  <1>5. PromisesKept'
    BY DEF GuestInv, PromisesKept
  <1> QED
    BY <1>3, <1>4, <1>5 DEF GuestInv

(* Lemma: whichever request writes a session last, what it writes is at    *)
(* most the time of a request behind what another one has promised.        *)
LEMMA VisitWrites ==
  ASSUME GuestInv, NEW v \in GuestRequest, NEW t \in GuestToken,
         visit[v].at # "idle",
         guests' = [guests EXCEPT ![t] = visit[v].expiry],
         Promise(t, visit[v].expiry),
         Visit(v, NoVisit), UNCHANGED minute
  PROVE  GuestInv'
  <1> DEFINE e == visit[v].expiry
  <1>1. e \in Nat /\ e <= minute + SessionTTL /\ minute + SessionTTL <= e + RequestTime
    BY CustomerAssumption DEF GuestInv, GuestTypes, VisitsFresh, VisitState
  <1>2. promised' = [promised EXCEPT ![t] = IF e > promised[t] THEN e ELSE promised[t]]
    BY DEF Promise
  <1>3. NoVisit \in VisitState /\ visit' = [visit EXCEPT ![v] = NoVisit]
    BY DEF NoVisit, VisitState, Visit
  <1> HIDE DEF e
  <1>4. GuestTypes'
    <2>1. (IF e > promised[t] THEN e ELSE promised[t]) \in Nat
      BY <1>1 DEF GuestInv, GuestTypes
    <2>2. guests' \in [GuestToken -> Nat] /\ promised' \in [GuestToken -> Nat]
      BY <1>1, <1>2, <2>1 DEF GuestInv, GuestTypes, e
    <2> QED
      BY <1>3, <2>2 DEF GuestInv, GuestTypes
  <1>5. VisitsFresh'
    BY <1>3 DEF GuestInv, GuestTypes, VisitsFresh, NoVisit
  <1>6. PromisesKept'
    <2> SUFFICES ASSUME NEW u \in GuestToken
                 PROVE  /\ promised'[u] <= minute' + SessionTTL
                        /\ promised'[u] <= guests'[u] + RequestTime
      BY DEF PromisesKept
    <2>1. promised[u] <= minute + SessionTTL /\ promised[u] <= guests[u] + RequestTime
      BY DEF GuestInv, PromisesKept
    <2>2. CASE u = t
      <3>1. guests'[u] = e /\ promised'[u] = IF e > promised[t] THEN e ELSE promised[t]
        BY <1>2, <2>2 DEF GuestInv, GuestTypes, e
      <3>2. promised[t] \in Nat /\ minute \in Nat /\ SessionTTL \in Nat /\ RequestTime \in Nat
        BY CustomerAssumption DEF GuestInv, GuestTypes
      <3> QED
        BY <1>1, <2>1, <2>2, <3>1, <3>2
    <2>3. CASE u # t
      BY <1>2, <2>1, <2>3 DEF GuestInv, GuestTypes
    <2> QED
      BY <2>2, <2>3
  <1> QED
    BY <1>4, <1>5, <1>6 DEF GuestInv

(* Lemma: every step keeps the invariant; logins do not touch sessions.    *)
LEMMA GuestNext == GuestInv /\ [CustomersNext]_customerVars => GuestInv'
  <1> SUFFICES ASSUME GuestInv, [CustomersNext]_customerVars PROVE GuestInv'
    OBVIOUS
  <1>1. ASSUME UNCHANGED guestVars PROVE GuestInv'
    BY <1>1 DEF guestVars, GuestInv, GuestTypes, VisitsFresh, PromisesKept
  <1>2. ASSUME NEW o \in OpenId, FindUser(o) \/ InsertUser(o) \/ AnswerLogin(o)
        PROVE  GuestInv'
    BY <1>1, <1>2 DEF FindUser, InsertUser, AnswerLogin
  <1>3. ASSUME NEW v \in GuestRequest, NEW t \in GuestToken, FindSession(v, t)
        PROVE  GuestInv'
    <2>1. PICK step \in {"renew", "insert"} :
            Visit(v, [at |-> step, session |-> {t}, since |-> minute,
                      expiry |-> minute + SessionTTL])
      BY <1>3 DEF FindSession
    <2>2. UNCHANGED <<minute, guests, promised>>
      BY <1>3 DEF FindSession
    <2> QED
      BY <2>1, <2>2, VisitBegins
  <1>4. ASSUME NEW v \in GuestRequest, NewSession(v) PROVE GuestInv'
    <2>1. /\ Visit(v, [at |-> "insert", session |-> {}, since |-> minute,
                       expiry |-> minute + SessionTTL])
          /\ UNCHANGED <<minute, guests, promised>>
      BY <1>4 DEF NewSession
    <2> QED
      BY <2>1, VisitBegins
  <1>5. ASSUME NEW v \in GuestRequest, RenewSession(v) PROVE GuestInv'
    <2>1. PICK t \in visit[v].session :
            /\ guests' = [guests EXCEPT ![t] = visit[v].expiry]
            /\ Promise(t, visit[v].expiry)
      BY <1>5 DEF RenewSession
    <2>2. t \in GuestToken
      BY DEF GuestInv, GuestTypes, VisitState
    <2>3. visit[v].at # "idle" /\ Visit(v, NoVisit) /\ UNCHANGED minute
      BY <1>5 DEF RenewSession
    <2> QED
      BY <2>1, <2>2, <2>3, VisitWrites
  <1>6. ASSUME NEW v \in GuestRequest, InsertSession(v) PROVE GuestInv'
    <2>1. PICK t \in GuestToken :
            /\ guests' = [guests EXCEPT ![t] = visit[v].expiry]
            /\ Promise(t, visit[v].expiry)
      BY <1>6 DEF InsertSession
    <2>2. visit[v].at # "idle" /\ Visit(v, NoVisit) /\ UNCHANGED minute
      BY <1>6 DEF InsertSession
    <2> QED
      BY <2>1, <2>2, VisitWrites
  <1>7. ASSUME NEW v \in GuestRequest, GiveUpVisit(v) PROVE GuestInv'
    <2>1. NoVisit \in VisitState /\ visit' = [visit EXCEPT ![v] = NoVisit]
      BY <1>7 DEF GiveUpVisit, NoVisit, VisitState, Visit
    <2>2. UNCHANGED <<minute, guests, promised>>
      BY <1>7 DEF GiveUpVisit
    <2>3. GuestTypes'
      BY <2>1, <2>2 DEF GuestInv, GuestTypes
    <2>4. VisitsFresh'
      BY <2>1, <2>2 DEF GuestInv, GuestTypes, VisitsFresh, NoVisit
    <2> QED
      BY <2>2, <2>3, <2>4 DEF GuestInv, PromisesKept
  <1>8. CASE MinutePasses
    <2>1. minute' = minute + 1 /\ UNCHANGED <<guests, visit, promised>>
      BY <1>8 DEF MinutePasses
    <2>2. GuestTypes'
      BY <2>1 DEF GuestInv, GuestTypes
    <2>3. VisitsFresh'
      <3> SUFFICES ASSUME NEW v \in GuestRequest, visit[v].at # "idle"
                   PROVE  /\ visit[v].expiry = visit[v].since + SessionTTL
                          /\ visit[v].since <= minute + 1
                          /\ minute + 1 <= visit[v].since + RequestTime
        BY <2>1 DEF VisitsFresh
      <3>1. minute - visit[v].since < RequestTime
        BY <1>8 DEF MinutePasses
      <3>2. /\ visit[v].expiry = visit[v].since + SessionTTL
            /\ visit[v].since <= minute
        BY DEF GuestInv, VisitsFresh
      <3>3. visit[v].since \in Nat /\ minute \in Nat
        BY DEF GuestInv, GuestTypes, VisitState
      <3> QED
        BY <3>1, <3>2, <3>3, CustomerAssumption
    <2>4. PromisesKept'
      BY <2>1, CustomerAssumption DEF GuestInv, GuestTypes, PromisesKept
    <2> QED
      BY <2>2, <2>3, <2>4 DEF GuestInv
  <1>9. CASE UNCHANGED customerVars
    BY <1>1, <1>9 DEF customerVars, guestVars
  <1> QED
    BY <1>2, <1>3, <1>4, <1>5, <1>6, <1>7, <1>8, <1>9 DEF CustomersNext

(* A guest can order until the expiry that was answered, but for the time  *)
(* of a request: two renewals of one session at once cost no more.         *)
THEOREM GuestKeepsSessionAlways == CustomersSpec => []GuestKeepsSession
  <1>1. GuestInv => GuestKeepsSession
    <2> SUFFICES ASSUME GuestInv, NEW t \in GuestToken, minute + RequestTime <= promised[t]
                 PROVE  guests[t] # 0 /\ minute <= guests[t]
      BY DEF GuestKeepsSession, GuestMayOrder
    <2>1. promised[t] <= guests[t] + RequestTime
      BY DEF GuestInv, PromisesKept
    <2>2. /\ promised[t] \in Nat /\ guests[t] \in Nat /\ minute \in Nat \ {0}
          /\ RequestTime \in Nat
      BY CustomerAssumption DEF GuestInv, GuestTypes
    <2> QED
      BY <2>1, <2>2
  <1> QED
    BY <1>1, GuestInit, GuestNext, PTL DEF CustomersSpec

\* Every user_id was drawn from the sequence.
LoginTypes ==
  /\ userSeq \in Nat
  /\ users \in [OpenId -> 0..userSeq] /\ token \in [OpenId -> 0..userSeq]
  /\ login \in [OpenId -> [at : {"idle", "insert", "answer"}, id : 0..userSeq]]

VisitsBegun == \A v \in GuestRequest : visit[v].since <= minute

(* Lemma: a login hands out the user_id of its row or a new one.           *)
LEMMA LoginKeeps ==
  ASSUME LoginTypes, NEW o \in OpenId, FindUser(o) \/ InsertUser(o) \/ AnswerLogin(o)
  PROVE  LoginTypes'
  <1>1. /\ userSeq \in Nat /\ users[o] \in 0..userSeq /\ login[o].id \in 0..userSeq
        /\ login[o] = [at |-> login[o].at, id |-> login[o].id]
    BY DEF LoginTypes
  <1>2. userSeq' \in Nat /\ userSeq <= userSeq'
    BY <1>1 DEF FindUser, InsertUser, AnswerLogin
  <1>3. users' \in [OpenId -> 0..userSeq'] /\ token' \in [OpenId -> 0..userSeq']
    <2>1. users' = users
      BY DEF FindUser, InsertUser, AnswerLogin
    <2>2. token' = token \/ token' = [token EXCEPT ![o] = login[o].id]
      BY DEF FindUser, InsertUser, AnswerLogin
    <2> QED
      BY <1>1, <1>2, <2>1, <2>2 DEF LoginTypes
  <1>4. login'[o] \in [at : {"idle", "insert", "answer"}, id : 0..userSeq']
    <2>1. CASE FindUser(o)
      <3>1. login'[o] = [login[o] EXCEPT !.at = IF users[o] = 0 THEN "insert" ELSE "answer",
                                         !.id = users[o]]
        BY <2>1 DEF FindUser, LoginTypes
      <3>2. UNCHANGED userSeq
        BY <2>1 DEF FindUser
      <3>3. /\ login'[o].at = (IF users[o] = 0 THEN "insert" ELSE "answer")
            /\ login'[o].id = users[o]
            /\ login'[o] = [at |-> login'[o].at, id |-> login'[o].id]
        BY <1>1, <3>1
      <3>4. login'[o].at \in {"idle", "insert", "answer"} /\ login'[o].id \in 0..userSeq'
        BY <1>1, <3>2, <3>3
      <3> QED
        BY <3>3, <3>4
    <2>2. CASE InsertUser(o)
      <3>1. login'[o] = [at |-> "answer", id |-> userSeq']
        BY <2>2 DEF InsertUser, LoginTypes
      <3> QED
        BY <1>2, <3>1
    <2>3. CASE AnswerLogin(o)
      <3>1. login'[o] = [at |-> "idle", id |-> 0]
        BY <2>3 DEF AnswerLogin, NoLogin, LoginTypes
      <3> QED
        BY <1>2, <3>1
    <2> QED
      BY <2>1, <2>2, <2>3
  <1>5. /\ login' = [n \in OpenId |-> login'[n]]
        /\ \A n \in OpenId : n # o => login'[n] = login[n]
    BY DEF LoginTypes, FindUser, InsertUser, AnswerLogin
  <1>6. login' \in [OpenId -> [at : {"idle", "insert", "answer"}, id : 0..userSeq']]
    <2>1. \A n \in OpenId :
            n # o => login'[n] \in [at : {"idle", "insert", "answer"}, id : 0..userSeq']
      BY <1>1, <1>2, <1>5 DEF LoginTypes
    <2> QED
      BY <1>4, <1>5, <2>1
  <1> QED
    BY <1>2, <1>3, <1>6 DEF LoginTypes

(* Theorem: type correctness of logins and guest sessions.                 *)
THEOREM CustomersTypeCorrect == CustomersSpec => []CustomersTypeOK
  <1>1. CustomersInit => LoginTypes /\ VisitsBegun
    <2> SUFFICES ASSUME CustomersInit PROVE LoginTypes /\ VisitsBegun
      OBVIOUS
    <2>1. Cardinality(OpenId) \in Nat
      BY CustomerAssumption, FS_CardinalityType
    <2>2. userSeq \in Nat /\ users \in [OpenId -> 0..userSeq]
      BY <2>1 DEF CustomersInit
    <2> QED
      BY <2>2 DEF CustomersInit, LoginTypes, VisitsBegun, NoLogin, NoVisit
  <1>2. LoginTypes /\ [CustomersNext]_customerVars => LoginTypes'
    <2> SUFFICES ASSUME LoginTypes, [CustomersNext]_customerVars PROVE LoginTypes'
      OBVIOUS
    <2>1. CASE UNCHANGED <<users, userSeq, login, token>>
      BY <2>1 DEF LoginTypes
    <2>2. CASE UNCHANGED customerVars
      BY <2>1, <2>2 DEF customerVars
    <2> QED
      BY <2>1, <2>2, LoginKeeps
      DEF CustomersNext, FindSession, NewSession, RenewSession, InsertSession, GiveUpVisit,
          MinutePasses, loginVars
  <1>3. GuestInv /\ VisitsBegun /\ [CustomersNext]_customerVars => VisitsBegun'
    <2> SUFFICES ASSUME GuestInv, VisitsBegun, [CustomersNext]_customerVars PROVE VisitsBegun'
      OBVIOUS
    <2>1. minute \in Nat /\ visit \in [GuestRequest -> VisitState]
      BY DEF GuestInv, GuestTypes
    <2>2. CASE UNCHANGED guestVars
      BY <2>2 DEF guestVars, VisitsBegun
    <2>3. ASSUME NEW v \in GuestRequest, NEW x, Visit(v, x), x.since \in {0, minute},
                 UNCHANGED minute
          PROVE  VisitsBegun'
      <3>1. \A w \in GuestRequest : visit'[w] = IF w = v THEN x ELSE visit[w]
        BY <2>1, <2>3 DEF Visit
      <3> QED
        BY <2>1, <2>3, <3>1 DEF VisitsBegun
    <2>4. ASSUME NEW v \in GuestRequest, NEW t \in GuestToken, FindSession(v, t)
          PROVE  VisitsBegun'
      <3> DEFINE x == [at |-> IF minute <= guests[t] THEN "renew" ELSE "insert", session |-> {t},
                       since |-> minute, expiry |-> minute + SessionTTL]
      <3>1. Visit(v, x) /\ x.since = minute /\ UNCHANGED minute
        BY <2>4 DEF FindSession
      <3> HIDE DEF x
      <3> QED
        BY <2>3, <3>1
    <2>5. ASSUME NEW v \in GuestRequest, NewSession(v)
          PROVE  VisitsBegun'
      <3> DEFINE x == [at |-> "insert", session |-> {}, since |-> minute,
                       expiry |-> minute + SessionTTL]
      <3>1. Visit(v, x) /\ x.since = minute /\ UNCHANGED minute
        BY <2>5 DEF NewSession
      <3> HIDE DEF x
      <3> QED
        BY <2>3, <3>1
    <2>6. ASSUME NEW v \in GuestRequest, RenewSession(v) \/ InsertSession(v) \/ GiveUpVisit(v)
          PROVE  VisitsBegun'
      <3>1. Visit(v, NoVisit) /\ NoVisit.since = 0 /\ UNCHANGED minute
        BY <2>6 DEF RenewSession, InsertSession, GiveUpVisit, NoVisit
      <3> QED
        BY <2>3, <3>1
    <2>7. CASE MinutePasses
      BY <2>1, <2>7 DEF MinutePasses, VisitsBegun, VisitState
    <2>8. CASE UNCHANGED customerVars
      BY <2>2, <2>8 DEF customerVars, guestVars
    <2> QED
      BY <2>2, <2>4, <2>5, <2>6, <2>7, <2>8 DEF CustomersNext, FindUser, InsertUser, AnswerLogin
  <1>4. GuestInv /\ LoginTypes /\ VisitsBegun => CustomersTypeOK
    BY DEF GuestInv, GuestTypes, VisitState, LoginTypes, VisitsBegun, CustomersTypeOK
  <1> QED
    BY <1>1, <1>2, <1>3, <1>4, GuestInit, GuestNext, PTL DEF CustomersSpec

-----------------------------------------------------------------------------
(* Reconciliation: what a report says stays true, for any orders, payments *)
(* and days.  Late payments and repeated runs do not make a gap disappear  *)
(* or appear on the report of another day.                                 *)

BookTypes ==
  /\ bill \in [Bill -> [created : Nat, paid : BOOLEAN]]
  /\ receipt \in [Receipt -> [paid : Nat, order : Bill \cup {NoBill}]]
  /\ day \in Nat

\* A record names an order when it is received, if ever.
UnreceivedIsBlank == \A r \in Receipt : receipt[r].paid = 0 => receipt[r].order = NoBill

\* What a run knew is still there, and no run was made on a later day.
KnowledgeLasts ==
  \A d \in DOMAIN report : report[d] # NoReport =>
    /\ report[d].made \in Nat /\ report[d].made <= day
    /\ report[d].received \subseteq Received

\* Only orders that exist are reported.
OrdersAreKnown ==
  \A d \in DOMAIN report : report[d] # NoReport => report[d].orders \subseteq Known

ReconciliationInv ==
  BookTypes /\ UnreceivedIsBlank /\ KnowledgeLasts /\ OrdersAreKnown /\ GapsAreReported

\* What GapsAreReported says of an order that is not on a report.
MissingIsPaid(d, found, b) ==
  found.made > d /\ bill[b].created = d /\ bill[b].paid =>
    \E r \in Received : /\ receipt[r].order = b
                        /\ receipt[r].paid = d \/ r \notin found.received

\* What GapsAreReported and KnowledgeLasts say of one report.
ReportIsTrue(d, found) ==
  /\ found.made \in Nat /\ found.made <= day
  /\ found.received \subseteq Received
  /\ \A r \in found.received :
       receipt[r].paid = d /\ receipt[r].order = NoBill => r \in found.payments
  /\ \A b \in Known \ found.orders : MissingIsPaid(d, found, b)
  /\ \A b \in found.orders :
       /\ bill[b].paid
       /\ \A r \in found.received : ~ (receipt[r].order = b /\ receipt[r].paid = d)

(* Lemma: the two invariants say of each report that it is true.           *)
LEMMA ReportsTrue ==
  KnowledgeLasts /\ GapsAreReported <=>
    \A d \in DOMAIN report : report[d] # NoReport => ReportIsTrue(d, report[d])
  BY DEF KnowledgeLasts, GapsAreReported, ReportIsTrue, MissingIsPaid

(* Lemma: at the start there are neither rows nor reports.                 *)
LEMMA ReconciliationStart == ReconciliationInit => ReconciliationInv
  BY DEF ReconciliationInit, ReconciliationInv, BookTypes, UnreceivedIsBlank, KnowledgeLasts,
         OrdersAreKnown, GapsAreReported

(* Lemma: a new order is of today, and no report of today was made after   *)
(* the day was over.                                                       *)
LEMMA CreateKeeps ==
  ASSUME ReconciliationInv, NEW b \in Bill, CreateBill(b)
  PROVE  ReconciliationInv'
  <1>1. PICK paid \in BOOLEAN : bill' = [bill EXCEPT ![b] = [created |-> day, paid |-> paid]]
    BY DEF CreateBill
  <1>2. bill[b].created = 0 /\ UNCHANGED <<day, receipt, report>>
    BY DEF CreateBill
  <1>3. BookTypes'
    BY <1>1, <1>2 DEF ReconciliationInv, BookTypes
  <1>4. UnreceivedIsBlank'
    BY <1>2 DEF ReconciliationInv, UnreceivedIsBlank
  <1>5. bill'[b].created = day /\ \A c \in Bill : c # b => bill'[c] = bill[c]
    BY <1>1 DEF ReconciliationInv, BookTypes
  <1>6. ASSUME NEW d \in DOMAIN report, report[d] # NoReport
        PROVE  ReportIsTrue(d, report[d])'
    <2>1. ReportIsTrue(d, report[d]) /\ b \notin report[d].orders
      <3>1. ReportIsTrue(d, report[d])
        BY <1>6, ReportsTrue DEF ReconciliationInv
      <3>2. report[d].orders \subseteq Known
        BY <1>6 DEF ReconciliationInv, OrdersAreKnown
      <3> QED
        BY <1>2, <3>1, <3>2 DEF Known
    <2>2. Received' = Received
      BY <1>2 DEF Received
    <2>3. ASSUME NEW c \in Known' \ report[d].orders PROVE MissingIsPaid(d, report[d], c)'
      <3>1. CASE c = b
        <4>1. bill'[c].created = day /\ day \in Nat
          BY <1>5, <3>1 DEF ReconciliationInv, BookTypes
        <4>2. report'[d].made \in Nat /\ report'[d].made <= day
          BY <1>2, <2>1 DEF ReportIsTrue
        <4>3. ~ (report'[d].made > d /\ bill'[c].created = d)
          BY <4>1, <4>2
        <4> QED
          BY <4>3 DEF MissingIsPaid
      <3>2. CASE c # b
        <4>1. c \in Known /\ bill'[c] = bill[c]
          BY <1>5, <2>3, <3>2 DEF Known
        <4> QED
          BY <1>2, <2>1, <2>2, <4>1 DEF ReportIsTrue, MissingIsPaid
      <3> QED
        BY <3>1, <3>2
    <2>4. \A c \in report[d].orders : bill'[c] = bill[c]
      BY <1>5, <1>6, <2>1 DEF ReconciliationInv, OrdersAreKnown, Known
    <2> QED
      BY <1>2, <2>1, <2>2, <2>3, <2>4 DEF ReportIsTrue
  <1>7. OrdersAreKnown'
    BY <1>2, <1>5 DEF ReconciliationInv, OrdersAreKnown, Known
  <1> QED
    BY <1>2, <1>3, <1>4, <1>6, <1>7, ReportsTrue
    DEF ReconciliationInv, KnowledgeLasts, GapsAreReported, ReportIsTrue, MissingIsPaid

(* Lemma: a record that arrives late was known to no run, and it explains  *)
(* why the order that it pays, if it pays one, was on no report.           *)
LEMMA RecordKeeps ==
  ASSUME ReconciliationInv, NEW r \in Receipt, NEW e \in 1..MaxDay,
         NEW o \in Known \cup {NoBill},
         receipt[r].paid = 0, UNCHANGED <<day, report>>,
         receipt' = [receipt EXCEPT ![r] = [paid |-> e, order |-> o]],
         bill' = IF o = NoBill THEN bill ELSE [bill EXCEPT ![o].paid = TRUE]
  PROVE  ReconciliationInv'
  <1>1. BookTypes'
    <2>1. [paid |-> e, order |-> o] \in [paid : Nat, order : Bill \cup {NoBill}]
      BY DEF Known
    <2>2. bill' \in [Bill -> [created : Nat, paid : BOOLEAN]]
      BY DEF ReconciliationInv, BookTypes, Known
    <2> QED
      BY <2>1, <2>2 DEF ReconciliationInv, BookTypes
  <1>2. \A q \in Receipt : receipt'[q] = IF q = r THEN [paid |-> e, order |-> o] ELSE receipt[q]
    BY DEF ReconciliationInv, BookTypes
  <1>3. UnreceivedIsBlank'
    BY <1>2 DEF ReconciliationInv, UnreceivedIsBlank
  <1>4. Received' = Received \cup {r} /\ r \notin Received
    BY <1>2 DEF Received
  <1>5. \A b \in Bill : /\ bill'[b].created = bill[b].created
                        /\ bill'[b].paid <=> (bill[b].paid \/ b = o)
    BY ReconciliationAssumption DEF ReconciliationInv, BookTypes, Known
  <1>6. Known' = Known
    BY <1>5 DEF Known
  <1>7. ASSUME NEW d \in DOMAIN report, report[d] # NoReport
        PROVE  ReportIsTrue(d, report[d])'
    <2>1. ReportIsTrue(d, report[d])
      BY <1>7, ReportsTrue DEF ReconciliationInv
    <2>2. report[d].received \subseteq Received' /\ r \notin report[d].received
      BY <1>4, <2>1 DEF ReportIsTrue
    <2>3. \A q \in report[d].received : receipt'[q] = receipt[q]
      BY <1>2, <2>1, <2>2 DEF ReportIsTrue, Received
    <2>4. ASSUME NEW b \in Known \ report[d].orders PROVE MissingIsPaid(d, report[d], b)'
      <3>1. CASE b = o
        <4>1. r \in Received' /\ receipt'[r].order = b /\ r \notin report'[d].received
          BY <1>2, <1>4, <2>2, <3>1
        <4> QED
          BY <4>1 DEF MissingIsPaid
      <3>2. CASE b # o
        <4>1. MissingIsPaid(d, report[d], b)
          BY <2>1, <2>4 DEF ReportIsTrue
        <4>2. bill'[b].created = bill[b].created /\ (bill'[b].paid <=> bill[b].paid)
          BY <1>5, <3>2 DEF Known
        <4>3. \A q \in Received : q \in Received' /\ receipt'[q] = receipt[q]
          BY <1>2, <1>4 DEF Received
        <4> QED
          BY <4>1, <4>2, <4>3 DEF MissingIsPaid
      <3> QED
        BY <3>1, <3>2
    <2>5. \A b \in report[d].orders : bill'[b].paid
      BY <1>5, <1>7, <2>1 DEF ReportIsTrue, ReconciliationInv, OrdersAreKnown, Known
    <2> QED
      BY <1>6, <2>1, <2>2, <2>3, <2>4, <2>5 DEF ReportIsTrue
  <1>8. OrdersAreKnown'
    BY <1>6 DEF ReconciliationInv, OrdersAreKnown
  <1> QED
    BY <1>1, <1>3, <1>7, <1>8, ReportsTrue
    DEF ReconciliationInv, KnowledgeLasts, GapsAreReported, ReportIsTrue, MissingIsPaid

(* Lemma: a callback records a payment of an order.                        *)
LEMMA ReceiveKeeps ==
  ASSUME ReconciliationInv, NEW r \in Receipt, NEW e \in 1..MaxDay, ReceivePayment(r, e)
  PROVE  ReconciliationInv'
  <1>1. PICK b \in Known : /\ bill' = [bill EXCEPT ![b].paid = TRUE]
                           /\ receipt' = [receipt EXCEPT ![r] = [paid |-> e, order |-> b]]
    BY DEF ReceivePayment
  <1>2. b # NoBill
    BY ReconciliationAssumption DEF Known
  <1>3. bill' = IF b = NoBill THEN bill ELSE [bill EXCEPT ![b].paid = TRUE]
    BY <1>1, <1>2
  <1>4. receipt[r].paid = 0 /\ UNCHANGED <<day, report>>
    BY DEF ReceivePayment
  <1> QED
    BY <1>1, <1>3, <1>4, RecordKeeps

(* Lemma: an imported record has no order.                                 *)
LEMMA ImportKeeps ==
  ASSUME ReconciliationInv, NEW r \in Receipt, NEW e \in 1..MaxDay, ImportReceipt(r, e)
  PROVE  ReconciliationInv'
  <1>1. receipt[r] = [paid |-> 0, order |-> NoBill]
    <2>1. receipt[r] \in [paid : Nat, order : Bill \cup {NoBill}]
      BY DEF ReconciliationInv, BookTypes
    <2> QED
      BY <2>1 DEF ImportReceipt, ReconciliationInv, UnreceivedIsBlank
  <1>2. [receipt[r] EXCEPT !.paid = e] = [paid |-> e, order |-> NoBill]
    BY <1>1
  <1>3. receipt' = [receipt EXCEPT ![r] = [receipt[r] EXCEPT !.paid = e]]
    BY DEF ImportReceipt
  <1>4. receipt' = [receipt EXCEPT ![r] = [paid |-> e, order |-> NoBill]]
    BY <1>2, <1>3
  <1>5. receipt[r].paid = 0 /\ UNCHANGED <<day, bill, report>>
    BY DEF ImportReceipt
  <1> QED
    BY <1>4, <1>5, RecordKeeps

(* Lemma: a run writes what is there, and leaves the other reports alone.  *)
LEMMA RunKeeps ==
  ASSUME ReconciliationInv, NEW e \in 1..MaxDay, RunDaily(e)
  PROVE  ReconciliationInv'
  <1> DEFINE matched == {receipt[r].order : r \in PaymentsOf(e)}
             found == [orders |-> {b \in BillsOf(e) : b \notin matched},
                       payments |-> {r \in PaymentsOf(e) : receipt[r].order = NoBill},
                       made |-> day, received |-> Received]
  <1>1. report' = [report EXCEPT ![e] = found] /\ UNCHANGED <<day, bill, receipt>>
    BY DEF RunDaily
  <1>2. ReportIsTrue(e, found) /\ found.orders \subseteq Known
    <2>1. found.made \in Nat /\ found.made <= day
      BY DEF ReconciliationInv, BookTypes
    <2>2. ASSUME NEW b \in Known \ found.orders PROVE MissingIsPaid(e, found, b)
      <3> SUFFICES ASSUME bill[b].created = e, bill[b].paid
                   PROVE  \E r \in Received : receipt[r].order = b /\ receipt[r].paid = e
        BY DEF MissingIsPaid
      <3>1. b \in matched
        BY <2>2 DEF BillsOf
      <3> QED
        BY <3>1 DEF PaymentsOf
    <2>3. \A b \in found.orders :
            /\ bill[b].paid
            /\ \A r \in found.received : ~ (receipt[r].order = b /\ receipt[r].paid = e)
      BY DEF BillsOf, PaymentsOf
    <2>4. \A r \in found.received :
            receipt[r].paid = e /\ receipt[r].order = NoBill => r \in found.payments
      BY DEF PaymentsOf
    <2>5. found.orders \subseteq Known /\ found.received \subseteq Received
      BY DEF BillsOf
    <2> HIDE DEF found
    <2> QED
      BY <2>1, <2>2, <2>3, <2>4, <2>5 DEF ReportIsTrue
  <1> HIDE DEF found
  <1>3. ASSUME NEW d \in DOMAIN report', report'[d] # NoReport
        PROVE  ReportIsTrue(d, report'[d]) /\ report'[d].orders \subseteq Known
    <2>1. CASE d = e /\ report'[d] = found
      BY <1>2, <2>1
    <2>2. CASE report'[d] = report[d]
      BY <1>1, <1>3, <2>2, ReportsTrue DEF ReconciliationInv, OrdersAreKnown
    <2> QED
      BY <1>1, <2>1, <2>2
  <1>4. Received' = Received /\ Known' = Known
    BY <1>1 DEF Received, Known
  <1>5. ASSUME NEW d \in DOMAIN report', report'[d] # NoReport
        PROVE  ReportIsTrue(d, report[d])'
    BY <1>1, <1>3, <1>4, <1>5 DEF ReportIsTrue, MissingIsPaid
  <1>6. BookTypes' /\ UnreceivedIsBlank' /\ OrdersAreKnown'
    BY <1>1, <1>3, <1>4 DEF ReconciliationInv, BookTypes, UnreceivedIsBlank, OrdersAreKnown
  <1> QED
    BY <1>5, <1>6, ReportsTrue
    DEF ReconciliationInv, KnowledgeLasts, GapsAreReported, ReportIsTrue, MissingIsPaid

(* Lemma: every step keeps the invariant.                                  *)
LEMMA ReconciliationStep ==
  ReconciliationInv /\ [ReconciliationNext]_reconciliationVars => ReconciliationInv'
  <1> SUFFICES ASSUME ReconciliationInv, [ReconciliationNext]_reconciliationVars
               PROVE  ReconciliationInv'
    OBVIOUS
  <1>1. ASSUME UNCHANGED <<bill, receipt, report>>, day' \in Nat, day <= day'
        PROVE  ReconciliationInv'
    <2>1. Received' = Received /\ Known' = Known
      BY <1>1 DEF Received, Known
    <2>2. BookTypes' /\ UnreceivedIsBlank' /\ OrdersAreKnown' /\ GapsAreReported'
      BY <1>1, <2>1 DEF ReconciliationInv, BookTypes, UnreceivedIsBlank, OrdersAreKnown,
                        GapsAreReported
    <2>3. KnowledgeLasts'
      BY <1>1, <2>1 DEF ReconciliationInv, BookTypes, KnowledgeLasts
    <2> QED
      BY <2>2, <2>3 DEF ReconciliationInv
  <1>2. CASE Midnight
    BY <1>1, <1>2 DEF Midnight, ReconciliationInv, BookTypes
  <1>3. CASE UNCHANGED reconciliationVars
    BY <1>1, <1>3 DEF reconciliationVars, ReconciliationInv, BookTypes
  <1> QED
    BY <1>2, <1>3, CreateKeeps, ReceiveKeeps, ImportKeeps, RunKeeps DEF ReconciliationNext

(* Late payments, a second payment of one order and repeated runs explain  *)
(* what a report of a finished day left out, and nothing else does.        *)
THEOREM GapsAreReportedAlways == ReconciliationSpec => []GapsAreReported
  <1>1. ReconciliationInv => GapsAreReported
    BY DEF ReconciliationInv
  <1> QED
    BY <1>1, ReconciliationStart, ReconciliationStep, PTL DEF ReconciliationSpec

\* Nothing is from a later day, and a report is made of what is there.
DaysAndReports ==
  /\ DOMAIN report = 1..MaxDay
  /\ \A b \in Bill : bill[b].created <= day
  /\ \A r \in Receipt : receipt[r].paid <= day /\ receipt[r].order \in Known \cup {NoBill}
  /\ \A d \in DOMAIN report : report[d] # NoReport =>
       report[d].made \in d..day /\ report[d].payments \subseteq Received

(* Theorem: type correctness of orders, records and reports.               *)
THEOREM ReconciliationTypeCorrect == ReconciliationSpec => []ReconciliationTypeOK
  <1>1. ReconciliationInit => DaysAndReports
    BY DEF ReconciliationInit, DaysAndReports, Known
  <1>2. ReconciliationInv /\ DaysAndReports /\ [ReconciliationNext]_reconciliationVars
          => DaysAndReports'
    <2> SUFFICES ASSUME ReconciliationInv, DaysAndReports,
                        [ReconciliationNext]_reconciliationVars
                 PROVE  DaysAndReports'
      OBVIOUS
    <2>1. /\ bill \in [Bill -> [created : Nat, paid : BOOLEAN]]
          /\ receipt \in [Receipt -> [paid : Nat, order : Bill \cup {NoBill}]]
          /\ day \in Nat /\ MaxDay \in Nat
      BY ReconciliationAssumption DEF ReconciliationInv, BookTypes
    <2>2. ASSUME day' \in Nat, day <= day', UNCHANGED <<bill, receipt, report>>
          PROVE  DaysAndReports'
      <3>1. Received' = Received /\ Known' = Known
        BY <2>2 DEF Known, Received
      <3> QED
        BY <2>1, <2>2, <3>1 DEF DaysAndReports
    <2>3. ASSUME NEW b \in Bill, CreateBill(b)
          PROVE  DaysAndReports'
      <3>1. /\ bill'[b].created = day /\ UNCHANGED <<day, receipt, report>>
            /\ \A c \in Bill : c # b => bill'[c] = bill[c]
        BY <2>1, <2>3 DEF CreateBill
      <3>2. Known \subseteq Known' /\ Received' = Received
        BY <2>3, <3>1 DEF Known, Received, CreateBill
      <3>3. \A c \in Bill : bill'[c].created <= day'
        BY <2>1, <3>1 DEF DaysAndReports
      <3>4. \A r \in Receipt : receipt'[r].paid <= day' /\ receipt'[r].order \in Known' \cup {NoBill}
        BY <3>1, <3>2 DEF DaysAndReports
      <3>5. /\ DOMAIN report' = 1..MaxDay
            /\ \A d \in DOMAIN report' : report'[d] # NoReport =>
                 report'[d].made \in d..day' /\ report'[d].payments \subseteq Received'
        BY <3>1, <3>2 DEF DaysAndReports
      <3> QED
        BY <3>3, <3>4, <3>5 DEF DaysAndReports
    <2>4. ASSUME NEW r \in Receipt, NEW d \in 1..MaxDay,
                 ReceivePayment(r, d) \/ ImportReceipt(r, d)
          PROVE  DaysAndReports'
      <3>1. /\ receipt'[r].paid = d /\ receipt'[r].order \in Known \cup {NoBill}
            /\ d <= day /\ UNCHANGED <<day, report>>
            /\ \A q \in Receipt : q # r => receipt'[q] = receipt[q]
            /\ \A b \in Bill : bill'[b].created = bill[b].created
        <4>1. PICK o \in Known \cup {NoBill} :
                /\ receipt' = [receipt EXCEPT ![r] = [paid |-> d, order |-> o]]
                /\ bill' = IF o = NoBill THEN bill ELSE [bill EXCEPT ![o].paid = TRUE]
                /\ d <= day /\ UNCHANGED <<day, report>>
          <5>1. CASE ReceivePayment(r, d)
            <6>1. PICK b \in Known :
                    /\ bill' = [bill EXCEPT ![b].paid = TRUE]
                    /\ receipt' = [receipt EXCEPT ![r] = [paid |-> d, order |-> b]]
              BY <5>1 DEF ReceivePayment
            <6>2. b # NoBill
              BY ReconciliationAssumption DEF Known
            <6> QED
              BY <5>1, <6>1, <6>2 DEF ReceivePayment
          <5>2. CASE ImportReceipt(r, d)
            <6>1. receipt[r].order = NoBill
              BY <5>2 DEF ImportReceipt, ReconciliationInv, UnreceivedIsBlank
            <6>2. [receipt[r] EXCEPT !.paid = d] = [paid |-> d, order |-> NoBill]
              BY <2>1, <6>1
            <6> QED
              BY <5>2, <6>2 DEF ImportReceipt
          <5> QED
            BY <2>4, <5>1, <5>2
        <4>2. \A q \in Receipt :
                receipt'[q] = IF q = r THEN [paid |-> d, order |-> o] ELSE receipt[q]
          BY <2>1, <4>1
        <4>3. \A b \in Bill : bill'[b].created = bill[b].created
          BY <2>1, <4>1
        <4> QED
          BY <4>1, <4>2, <4>3
      <3>2. Known' = Known /\ Received \subseteq Received'
        BY <2>1, <2>4, <3>1 DEF Known, Received
      <3> QED
        BY <2>1, <3>1, <3>2 DEF DaysAndReports
    <2>5. ASSUME NEW d \in 1..MaxDay, RunDaily(d)
          PROVE  DaysAndReports'
      <3>1. BillsOf(d) \subseteq Known /\ PaymentsOf(d) \subseteq Received
        BY DEF BillsOf, PaymentsOf
      <3>2. /\ UNCHANGED <<day, bill, receipt>> /\ DOMAIN report' = DOMAIN report
            /\ \A e \in DOMAIN report : e # d => report'[e] = report[e]
            /\ d <= day
            /\ d \in DOMAIN report => /\ report'[d].made = day
                                      /\ report'[d].payments \subseteq PaymentsOf(d)
        BY <2>5 DEF RunDaily
      <3>3. Known' = Known /\ Received' = Received
        BY <3>2 DEF Known, Received
      <3>4. /\ DOMAIN report' = 1..MaxDay /\ \A b \in Bill : bill'[b].created <= day'
            /\ \A r \in Receipt : receipt'[r].paid <= day' /\ receipt'[r].order \in Known' \cup {NoBill}
        BY <3>2, <3>3 DEF DaysAndReports
      <3>5. ASSUME NEW e \in DOMAIN report, report'[e] # NoReport
            PROVE  report'[e].made \in e..day' /\ report'[e].payments \subseteq Received'
        <4>1. CASE e = d
          BY <2>1, <3>1, <3>2, <3>3, <4>1
        <4>2. CASE e # d
          BY <3>2, <3>3, <3>5, <4>2 DEF DaysAndReports
        <4> QED
          BY <4>1, <4>2
      <3> QED
        BY <3>2, <3>4, <3>5 DEF DaysAndReports
    <2>6. CASE Midnight
      BY <2>1, <2>2, <2>6 DEF Midnight
    <2>7. CASE UNCHANGED reconciliationVars
      BY <2>1, <2>2, <2>7 DEF reconciliationVars
    <2> QED
      BY <2>3, <2>4, <2>5, <2>6, <2>7 DEF ReconciliationNext
  <1>3. ReconciliationInv /\ DaysAndReports => ReconciliationTypeOK
    BY DEF ReconciliationInv, BookTypes, KnowledgeLasts, OrdersAreKnown, DaysAndReports,
           ReconciliationTypeOK
  <1> QED
    BY <1>1, <1>2, <1>3, ReconciliationStart, ReconciliationStep, PTL DEF ReconciliationSpec

-----------------------------------------------------------------------------
(* The notifier: a screen that is connected misses nothing but what its    *)
(* process could not hear, for any number of processes, screens, messages  *)
(* and places in a queue, and whatever fails.                              *)

(* Lemma: what a queue holds when a message has been put at its end.       *)
LEMMA HeldAfterAppend ==
  ASSUME NEW S, NEW q \in Seq(S), NEW m \in S
  PROVE  /\ Append(q, m) \in Seq(S)
         /\ Len(Append(q, m)) = Len(q) + 1
         /\ Range(Append(q, m)) = Range(q) \cup {m}
  <1> DEFINE r == Append(q, m)
  <1>1. /\ r \in Seq(S) /\ Len(r) = Len(q) + 1 /\ Len(q) \in Nat
        /\ DOMAIN r = 1..Len(q) + 1 /\ DOMAIN q = 1..Len(q)
        /\ \A i \in 1..Len(q) : r[i] = q[i]
        /\ r[Len(q) + 1] = m
    OBVIOUS
  <1> HIDE DEF r
  <1>2. ASSUME NEW x \in Range(r) PROVE x \in Range(q) \cup {m}
    <2>1. PICK i \in DOMAIN r : x = r[i]
      BY <1>2 DEF Range
    <2>2. CASE i \in 1..Len(q)
      BY <1>1, <2>1, <2>2 DEF Range
    <2>3. CASE i = Len(q) + 1
      BY <1>1, <2>1, <2>3
    <2> QED
      BY <1>1, <2>1, <2>2, <2>3
  <1>3. ASSUME NEW x \in Range(q) PROVE x \in Range(r)
    <2>1. PICK i \in DOMAIN q : x = q[i]
      BY <1>3 DEF Range
    <2>2. i \in DOMAIN r /\ x = r[i]
      BY <1>1, <2>1
    <2> QED
      BY <2>2 DEF Range
  <1>4. m \in Range(r)
    <2>1. Len(q) + 1 \in DOMAIN r
      BY <1>1
    <2> QED
      BY <1>1, <2>1 DEF Range
  <1>5. Range(r) = Range(q) \cup {m}
    BY <1>2, <1>3, <1>4
  <1> QED
    BY <1>1, <1>5 DEF r

(* Lemma: the first message of a queue and the rest of it.                 *)
LEMMA HeldByHeadAndTail ==
  ASSUME NEW S, NEW q \in Seq(S), q # <<>>
  PROVE  /\ Head(q) \in S /\ Tail(q) \in Seq(S)
         /\ Len(Tail(q)) = Len(q) - 1
         /\ Range(q) = {Head(q)} \cup Range(Tail(q))
  <1> DEFINE r == Tail(q)
  <1>1. /\ Len(q) \in Nat \ {0} /\ DOMAIN q = 1..Len(q)
        /\ Head(q) = q[1] /\ Head(q) \in S
        /\ r \in Seq(S) /\ Len(r) = Len(q) - 1 /\ DOMAIN r = 1..Len(q) - 1
        /\ \A i \in 1..Len(q) - 1 : r[i] = q[i + 1]
    OBVIOUS
  <1> HIDE DEF r
  <1>2. ASSUME NEW x \in Range(q) PROVE x \in {Head(q)} \cup Range(r)
    <2>1. PICK i \in DOMAIN q : x = q[i]
      BY <1>2 DEF Range
    <2>2. CASE i = 1
      BY <1>1, <2>1, <2>2
    <2>3. CASE i # 1
      <3>1. i - 1 \in DOMAIN r /\ r[i - 1] = x
        BY <1>1, <2>1, <2>3
      <3> QED
        BY <3>1 DEF Range
    <2> QED
      BY <2>2, <2>3
  <1>3. ASSUME NEW x \in Range(r) PROVE x \in Range(q)
    <2>1. PICK i \in DOMAIN r : x = r[i]
      BY <1>3 DEF Range
    <2>2. i + 1 \in DOMAIN q /\ q[i + 1] = x
      BY <1>1, <2>1
    <2> QED
      BY <2>2 DEF Range
  <1>4. Head(q) \in Range(q)
    <2>1. 1 \in DOMAIN q
      BY <1>1
    <2> QED
      BY <1>1, <2>1 DEF Range
  <1>5. Range(q) = {Head(q)} \cup Range(r)
    BY <1>2, <1>3, <1>4
  <1> QED
    BY <1>1, <1>5 DEF r

(* Lemma: an empty queue holds nothing.                                    *)
LEMMA HeldByEmpty == Range(<<>>) = {}
  BY DEF Range

ScreenState ==
  [at : {"away", "joining", "ready", "lost"}, of : Process, queue : Seq(Message),
   sending : SUBSET Message, shown : SUBSET Message, dropped : SUBSET Message]

OrderState ==
  [at : {"unpaid", "paid", "fallback", "told"}, by : Process, recent : BOOLEAN]

NotifierTypes ==
  /\ notifier \in [Process -> {"down", "local", "redis"}]
  /\ listener \in [Process -> {"off", "starting", "on"}]
  /\ wire \in [Process -> Seq(Message)]
  /\ screen \in [Screen -> ScreenState]
  /\ \A s \in Screen : Len(screen[s].queue) <= BufferSize
  /\ order \in [Message -> OrderState]
  /\ missedBy \in [Message -> SUBSET Process]

\* A message that has been sent is somewhere on the way to connection c, or its process did
\* not hear it.
HeldFor(c, m) ==
  \/ m \in c.shown \cup c.dropped \cup c.sending
  \/ m \in Range(c.queue)
  \/ m \in Range(wire[c.of])
  \/ c.of \in missedBy[m]

Accounted(s, m) == HeldFor(screen[s], m)

\* NoGap says nothing of a broadcast that fell back and is not over; but such a message has
\* reached Redis or missed everybody, and what it missed is set right by the fallback.
NothingLost ==
  \A s \in Screen, m \in Message :
    screen[s].at = "ready" /\ order[m].at \notin {"unpaid", "paid"} => Accounted(s, m)

NotifierInv == NotifierTypes /\ NothingLost

(* Lemma: a connection that is closed, and the order of no payment.        *)
LEMMA AwayAndUnpaid ==
  Away \in ScreenState /\ Len(Away.queue) <= BufferSize /\ Unpaid \in OrderState
  <1>1. (CHOOSE p \in Process : TRUE) \in Process
    BY NotifierAssumption
  <1> QED
    BY <1>1, NotifierAssumption DEF Away, Unpaid, ScreenState, OrderState

(* Lemma: no screen is connected at the start.                             *)
LEMMA NotifierStarts == NotifierInit => NotifierInv
  <1> SUFFICES ASSUME NotifierInit PROVE NotifierInv
    OBVIOUS
  <1>1. NotifierTypes
    <2>1. wire \in [Process -> Seq(Message)]
      BY DEF NotifierInit
    <2>2. missedBy \in [Message -> SUBSET Process]
      BY DEF NotifierInit
    <2> QED
      BY <2>1, <2>2, AwayAndUnpaid DEF NotifierInit, NotifierTypes
  <1>2. \A s \in Screen : screen[s].at = "away"
    BY DEF NotifierInit, Away
  <1> QED
    BY <1>1, <1>2 DEF NotifierInv, NothingLost

(* Lemma: a connection after one more message, which it holds or drops     *)
(* the oldest of.                                                          *)
LEMMA QueuedKeepsAll ==
  ASSUME NEW c \in ScreenState, Len(c.queue) <= BufferSize, NEW m \in Message
  PROVE  LET d == Queued(c, m) IN
         /\ d \in ScreenState /\ Len(d.queue) <= BufferSize
         /\ d.at = c.at /\ d.of = c.of /\ d.sending = c.sending /\ d.shown = c.shown
         /\ Range(d.queue) \cup d.dropped = Range(c.queue) \cup c.dropped \cup {m}
  <1> DEFINE d == Queued(c, m)
  <1>1. c.queue \in Seq(Message) /\ BufferSize \in Nat \ {0}
    BY NotifierAssumption DEF ScreenState
  <1>2. CASE Len(c.queue) = BufferSize
    <2>1. c.queue # <<>>
      BY <1>1, <1>2
    <2>2. /\ d = [c EXCEPT !.queue = Append(Tail(c.queue), m),
                           !.dropped = c.dropped \cup {Head(c.queue)}]
      BY <1>2 DEF Queued
    <2>3. /\ Head(c.queue) \in Message /\ Tail(c.queue) \in Seq(Message)
          /\ Len(Tail(c.queue)) = Len(c.queue) - 1
          /\ Range(c.queue) = {Head(c.queue)} \cup Range(Tail(c.queue))
      BY <1>1, <2>1, HeldByHeadAndTail
    <2>4. /\ Append(Tail(c.queue), m) \in Seq(Message)
          /\ Len(Append(Tail(c.queue), m)) = Len(c.queue)
          /\ Range(Append(Tail(c.queue), m)) = Range(Tail(c.queue)) \cup {m}
      <3> DEFINE r == Tail(c.queue)
      <3>1. r \in Seq(Message) /\ Len(r) = Len(c.queue) - 1 /\ Len(c.queue) \in Nat
        BY <1>1, <2>3
      <3> HIDE DEF r
      <3>2. /\ Append(r, m) \in Seq(Message) /\ Len(Append(r, m)) = Len(r) + 1
            /\ Range(Append(r, m)) = Range(r) \cup {m}
        BY <3>1, HeldAfterAppend
      <3>3. Len(Append(r, m)) = Len(c.queue)
        BY <3>1, <3>2
      <3> QED
        BY <3>2, <3>3 DEF r
    <2> HIDE DEF d
    <2>5. /\ d \in ScreenState /\ d.at = c.at /\ d.of = c.of
          /\ d.sending = c.sending /\ d.shown = c.shown
          /\ d.queue = Append(Tail(c.queue), m) /\ d.dropped = c.dropped \cup {Head(c.queue)}
      BY <2>2, <2>3, <2>4 DEF ScreenState
    <2> QED
      BY <1>1, <1>2, <2>3, <2>4, <2>5 DEF d
  <1>3. CASE Len(c.queue) # BufferSize
    <2>2. d = [c EXCEPT !.queue = Append(c.queue, m), !.dropped = c.dropped]
      BY <1>3 DEF Queued
    <2>4. /\ Append(c.queue, m) \in Seq(Message)
          /\ Len(Append(c.queue, m)) = Len(c.queue) + 1
          /\ Range(Append(c.queue, m)) = Range(c.queue) \cup {m}
      BY <1>1, HeldAfterAppend
    <2> HIDE DEF d
    <2>5. /\ d \in ScreenState /\ d.at = c.at /\ d.of = c.of
          /\ d.sending = c.sending /\ d.shown = c.shown
          /\ d.queue = Append(c.queue, m) /\ d.dropped = c.dropped
      BY <2>2, <2>4 DEF ScreenState
    <2>6. Len(c.queue) + 1 <= BufferSize
      BY <1>1, <1>3
    <2> QED
      BY <2>4, <2>5, <2>6 DEF d
  <1> QED
    BY <1>2, <1>3

(* Lemma: a step of one connection, which must not lose what was accounted *)
(* for.                                                                    *)
LEMMA ConnectionSteps ==
  ASSUME NotifierInv, NEW s \in Screen, NEW c \in ScreenState,
         Len(c.queue) <= BufferSize, Set(s, c), OthersUnchanged,
         c.at = "ready" => \A m \in Message :
            order[m].at \notin {"unpaid", "paid"} => HeldFor(c, m)
  PROVE  NotifierInv'
  <1>1. /\ screen' = [screen EXCEPT ![s] = c]
        /\ UNCHANGED <<notifier, listener, wire, order, missedBy>>
    BY DEF Set, OthersUnchanged
  <1>2. \A q \in Screen : screen'[q] = IF q = s THEN c ELSE screen[q]
    BY <1>1 DEF NotifierInv, NotifierTypes
  <1>3. NotifierTypes'
    BY <1>1, <1>2 DEF NotifierInv, NotifierTypes
  <1>4. ASSUME NEW q \in Screen, NEW m \in Message, screen'[q].at = "ready",
               order'[m].at \notin {"unpaid", "paid"}
        PROVE  Accounted(q, m)'
    <2>1. CASE q = s
      BY <1>1, <1>2, <1>4, <2>1 DEF Accounted, HeldFor
    <2>2. CASE q # s
      BY <1>1, <1>2, <1>4, <2>2 DEF Accounted, HeldFor, NotifierInv, NothingLost
    <2> QED
      BY <2>1, <2>2
  <1> QED
    BY <1>3, <1>4 DEF NotifierInv, NothingLost

(* Lemma: the screens of a process are handed a message, and lose nothing. *)
LEMMA BroadcastReachesAll ==
  ASSUME NotifierInv, NEW p \in Process, NEW m \in Message, BroadcastLocal(p, m)
  PROVE  /\ screen' \in [Screen -> ScreenState]
         /\ \A s \in Screen : Len(screen'[s].queue) <= BufferSize
         /\ \A s \in Screen :
              /\ screen'[s].at = screen[s].at /\ screen'[s].of = screen[s].of
              /\ screen'[s].sending = screen[s].sending /\ screen'[s].shown = screen[s].shown
              /\ Range(screen[s].queue) \cup screen[s].dropped
                   \subseteq Range(screen'[s].queue) \cup screen'[s].dropped
              /\ Registered(s, p) => m \in Range(screen'[s].queue) \cup screen'[s].dropped
  <1>1. \A s \in Screen :
          screen'[s] = IF Registered(s, p) THEN Queued(screen[s], m) ELSE screen[s]
    BY DEF BroadcastLocal
  <1>2. screen' = [s \in Screen |-> screen'[s]]
    BY DEF BroadcastLocal
  <1>3. ASSUME NEW s \in Screen
        PROVE  /\ screen'[s] \in ScreenState /\ Len(screen'[s].queue) <= BufferSize
               /\ screen'[s].at = screen[s].at /\ screen'[s].of = screen[s].of
               /\ screen'[s].sending = screen[s].sending /\ screen'[s].shown = screen[s].shown
               /\ Range(screen[s].queue) \cup screen[s].dropped
                    \subseteq Range(screen'[s].queue) \cup screen'[s].dropped
               /\ Registered(s, p) => m \in Range(screen'[s].queue) \cup screen'[s].dropped
    <2>1. screen[s] \in ScreenState /\ Len(screen[s].queue) <= BufferSize
      BY DEF NotifierInv, NotifierTypes
    <2>2. CASE Registered(s, p)
      <3> DEFINE d == Queued(screen[s], m)
      <3>1. /\ d \in ScreenState /\ Len(d.queue) <= BufferSize
            /\ d.at = screen[s].at /\ d.of = screen[s].of
            /\ d.sending = screen[s].sending /\ d.shown = screen[s].shown
            /\ Range(d.queue) \cup d.dropped
                 = Range(screen[s].queue) \cup screen[s].dropped \cup {m}
        BY <2>1, QueuedKeepsAll
      <3>2. screen'[s] = d
        BY <1>1, <2>2
      <3> HIDE DEF d
      <3> QED
        BY <3>1, <3>2
    <2>3. CASE ~ Registered(s, p)
      <3>1. screen'[s] = screen[s]
        BY <1>1, <2>3
      <3> QED
        BY <2>1, <2>3, <3>1
    <2> QED
      BY <2>2, <2>3
  <1> QED
    BY <1>2, <1>3

(* Lemma: the steps of the notifier of a process, but what it broadcasts.  *)
LEMMA ProcessSteps ==
  ASSUME NotifierInv, NEW p \in Process,
         Startup(p) \/ Subscribe(p) \/ ListenerError(p) \/ Stop(p)
  PROVE  NotifierInv'
  <1>0. ASSUME UNCHANGED <<wire, screen, order, missedBy>> PROVE NothingLost'
    BY <1>0 DEF NotifierInv, NothingLost, Accounted, HeldFor
  <1>1. CASE Startup(p)
    <2>1. /\ notifier' \in [Process -> {"down", "local", "redis"}]
          /\ listener' \in [Process -> {"off", "starting", "on"}]
      BY <1>1 DEF Startup, NotifierInv, NotifierTypes
    <2>2. UNCHANGED <<wire, screen, order, missedBy>>
      BY <1>1 DEF Startup
    <2> QED
      BY <1>0, <2>1, <2>2 DEF NotifierInv, NotifierTypes
  <1>2. CASE Subscribe(p)
    BY <1>2, <1>0 DEF Subscribe, NotifierInv, NotifierTypes
  <1>3. CASE ListenerError(p)
    <2>1. /\ UNCHANGED <<notifier, screen, order>>
          /\ listener' = [listener EXCEPT ![p] = "off"]
          /\ wire' = [wire EXCEPT ![p] = <<>>]
          /\ missedBy' = [m \in Message |-> IF m \in Range(wire[p]) THEN missedBy[m] \cup {p}
                                           ELSE missedBy[m]]
      BY <1>3 DEF ListenerError
    <2>2. NotifierTypes'
      <3>1. <<>> \in Seq(Message)
        OBVIOUS
      <3>2. missedBy' \in [Message -> SUBSET Process]
        BY <2>1 DEF NotifierInv, NotifierTypes
      <3>3. wire' \in [Process -> Seq(Message)]
        BY <2>1, <3>1 DEF NotifierInv, NotifierTypes
      <3> QED
        BY <2>1, <3>2, <3>3 DEF NotifierInv, NotifierTypes
    <2>3. ASSUME NEW s \in Screen, NEW m \in Message, screen'[s].at = "ready",
                 order'[m].at \notin {"unpaid", "paid"}
          PROVE  Accounted(s, m)'
      <3>1. Accounted(s, m) /\ screen' = screen /\ missedBy[m] \subseteq missedBy'[m]
        BY <2>1, <2>3 DEF NotifierInv, NothingLost
      <3>2. CASE screen[s].of = p
        BY <2>1, <3>1, <3>2 DEF Accounted, HeldFor
      <3>3. CASE screen[s].of # p
        <4>1. wire'[screen[s].of] = wire[screen[s].of]
          BY <2>1, <3>3 DEF NotifierInv, NotifierTypes, ScreenState
        <4> QED
          BY <3>1, <4>1 DEF Accounted, HeldFor
      <3> QED
        BY <3>2, <3>3
    <2> QED
      BY <2>2, <2>3 DEF NotifierInv, NothingLost
  <1>4. CASE Stop(p)
    <2> DEFINE mute == {m \in Message : order[m].by = p /\ order[m].at \in {"paid", "fallback"}}
    <2>1. /\ notifier' = [notifier EXCEPT ![p] = "down"]
          /\ listener' = [listener EXCEPT ![p] = "off"]
          /\ wire' = [wire EXCEPT ![p] = <<>>]
          /\ screen' = [s \in Screen |-> IF screen[s].of = p THEN Away ELSE screen[s]]
          /\ order' = [m \in Message |->
                         IF m \in mute THEN [order[m] EXCEPT !.at = "told"] ELSE order[m]]
          /\ missedBy' = [m \in Message |-> IF m \in mute THEN Process ELSE missedBy[m]]
      BY <1>4 DEF Stop
    <2> HIDE DEF mute
    <2>2. NotifierTypes'
      <3>1. <<>> \in Seq(Message)
        OBVIOUS
      <3>2. missedBy' \in [Message -> SUBSET Process]
        BY <2>1 DEF NotifierInv, NotifierTypes
      <3>3. wire' \in [Process -> Seq(Message)]
        BY <2>1, <3>1 DEF NotifierInv, NotifierTypes
      <3>4. order' \in [Message -> OrderState]
        BY <2>1 DEF NotifierInv, NotifierTypes, OrderState
      <3>5. /\ screen' \in [Screen -> ScreenState]
            /\ \A s \in Screen : Len(screen'[s].queue) <= BufferSize
        BY <2>1, AwayAndUnpaid DEF NotifierInv, NotifierTypes
      <3> QED
        BY <2>1, <3>2, <3>3, <3>4, <3>5 DEF NotifierInv, NotifierTypes
    <2>3. ASSUME NEW s \in Screen, NEW m \in Message, screen'[s].at = "ready",
                 order'[m].at \notin {"unpaid", "paid"}
          PROVE  Accounted(s, m)'
      <3>1. screen[s].of # p /\ screen'[s] = screen[s]
        BY <2>1, <2>3 DEF Away
      <3>2. screen[s].of \in Process
        BY DEF NotifierInv, NotifierTypes, ScreenState
      <3>3. CASE m \in mute
        BY <2>1, <3>1, <3>2, <3>3 DEF Accounted, HeldFor
      <3>4. CASE m \notin mute
        <4>1. /\ Accounted(s, m)
          BY <2>1, <2>3, <3>1, <3>4 DEF NotifierInv, NothingLost
        <4>2. wire'[screen[s].of] = wire[screen[s].of] /\ missedBy'[m] = missedBy[m]
          BY <2>1, <3>1, <3>2, <3>4 DEF NotifierInv, NotifierTypes
        <4> QED
          BY <3>1, <4>1, <4>2 DEF Accounted, HeldFor
      <3> QED
        BY <3>3, <3>4
    <2> QED
      BY <2>2, <2>3 DEF NotifierInv, NothingLost
  <1> QED
    BY <1>1, <1>2, <1>3, <1>4

(* Lemma: what Redis takes reaches every process that listens.             *)
LEMMA SendReachesAll ==
  ASSUME NotifierInv, NEW m \in Message, Send(m)
  PROVE  /\ wire' \in [Process -> Seq(Message)]
         /\ \A p \in Process : Range(wire[p]) \subseteq Range(wire'[p])
         /\ \A p \in Process : p \notin Deaf => m \in Range(wire'[p])
  <1>1. ASSUME NEW p \in Process
        PROVE  /\ wire'[p] \in Seq(Message) /\ Range(wire[p]) \subseteq Range(wire'[p])
               /\ p \notin Deaf => m \in Range(wire'[p])
    <2>1. wire[p] \in Seq(Message)
      BY DEF NotifierInv, NotifierTypes
    <2>2. wire'[p] = IF p \in Deaf THEN wire[p] ELSE Append(wire[p], m)
      BY DEF Send
    <2>3. /\ Append(wire[p], m) \in Seq(Message)
          /\ Range(Append(wire[p], m)) = Range(wire[p]) \cup {m}
      BY <2>1, HeldAfterAppend
    <2> QED
      BY <2>1, <2>2, <2>3
  <1>2. wire' = [p \in Process |-> wire'[p]]
    BY DEF Send
  <1> QED
    BY <1>1, <1>2

(* Lemma: a payment, a publication, and one that fails.                    *)
LEMMA PublicationSteps ==
  ASSUME NotifierInv, NEW m \in Message,
         \/ \E p \in Process : OrderPaid(m, p)
         \/ OrderAges(m) \/ Publish(m) \/ PublishFails(m)
  PROVE  NotifierInv'
  <1>1. CASE \E p \in Process : OrderPaid(m, p)
    BY <1>1 DEF OrderPaid, NotifierInv, NotifierTypes, OrderState, NothingLost, Accounted, HeldFor
  <1>2. CASE OrderAges(m)
    BY <1>2 DEF OrderAges, NotifierInv, NotifierTypes, OrderState, NothingLost, Accounted, HeldFor
  <1>3. ASSUME UNCHANGED <<notifier, listener, screen>>,
               NEW at \in {"fallback", "told"}, order[m].at = "paid",
               order' = [order EXCEPT ![m].at = at],
               NEW missed \in SUBSET Process, missedBy' = [missedBy EXCEPT ![m] = missed],
               \/ Send(m) /\ missed = Deaf
               \/ UNCHANGED wire /\ missed = Process
        PROVE  NotifierInv'
    <2>1. /\ wire' \in [Process -> Seq(Message)]
          /\ \A p \in Process : Range(wire[p]) \subseteq Range(wire'[p])
          /\ \A p \in Process : p \notin missed => m \in Range(wire'[p])
      <3>1. CASE Send(m) /\ missed = Deaf
        BY <3>1, SendReachesAll
      <3>2. CASE UNCHANGED wire /\ missed = Process
        BY <3>2 DEF NotifierInv, NotifierTypes
      <3> QED
        BY <1>3, <3>1, <3>2
    <2>2. NotifierTypes'
      BY <1>3, <2>1 DEF NotifierInv, NotifierTypes, OrderState
    <2>3. ASSUME NEW s \in Screen, NEW n \in Message, screen'[s].at = "ready",
                 order'[n].at \notin {"unpaid", "paid"}
          PROVE  Accounted(s, n)'
      <3>1. screen' = screen /\ screen[s].of \in Process
        BY <1>3 DEF NotifierInv, NotifierTypes, ScreenState
      <3>2. CASE n = m
        <4>1. missedBy'[n] = missed
          BY <1>3, <3>2 DEF NotifierInv, NotifierTypes
        <4> QED
          BY <2>1, <3>1, <3>2, <4>1 DEF Accounted, HeldFor
      <3>3. CASE n # m
        <4>1. order'[n] = order[n] /\ missedBy'[n] = missedBy[n]
          BY <1>3, <3>3 DEF NotifierInv, NotifierTypes
        <4>2. Accounted(s, n)
          BY <2>3, <3>1, <4>1 DEF NotifierInv, NothingLost
        <4> QED
          BY <2>1, <3>1, <4>1, <4>2 DEF Accounted, HeldFor
      <3> QED
        BY <3>2, <3>3
    <2> QED
      BY <2>2, <2>3 DEF NotifierInv, NothingLost
  <1>4. Deaf \in SUBSET Process
    BY DEF Deaf
  <1>5. CASE Publish(m)
    BY <1>3, <1>4, <1>5 DEF Publish, Told
  <1>6. CASE PublishFails(m)
    <2>1. CASE wire' = wire
      BY <1>3, <1>6, <2>1 DEF PublishFails
    <2>2. CASE wire' # wire
      BY <1>3, <1>4, <1>6, <2>2 DEF PublishFails
    <2> QED
      BY <2>1, <2>2
  <1> QED
    BY <1>1, <1>2, <1>5, <1>6

(* Lemma: the fallback reaches the screens of the process, the listener    *)
(* those it hears for.                                                     *)
LEMMA FallbackStep == ASSUME NotifierInv, NEW m \in Message, Fallback(m) PROVE NotifierInv'
  <1> DEFINE p == order[m].by
             missed == (IF order[m].at = "paid" THEN Process ELSE missedBy[m]) \ {p}
  <1>1. p \in Process /\ missed \in SUBSET Process
    BY DEF NotifierInv, NotifierTypes, OrderState
  <1>2. /\ UNCHANGED <<notifier, listener, wire>> /\ BroadcastLocal(p, m)
        /\ order' = [order EXCEPT ![m].at = "told"]
        /\ missedBy' = [missedBy EXCEPT ![m] = missed]
        /\ order[m].at \in {"fallback", "paid"}
    BY DEF Fallback, Told
  <1>3. /\ screen' \in [Screen -> ScreenState]
        /\ \A s \in Screen : Len(screen'[s].queue) <= BufferSize
        /\ \A s \in Screen :
             /\ screen'[s].at = screen[s].at /\ screen'[s].of = screen[s].of
             /\ screen'[s].sending = screen[s].sending /\ screen'[s].shown = screen[s].shown
             /\ Range(screen[s].queue) \cup screen[s].dropped
                  \subseteq Range(screen'[s].queue) \cup screen'[s].dropped
             /\ Registered(s, p) => m \in Range(screen'[s].queue) \cup screen'[s].dropped
    BY <1>1, <1>2, BroadcastReachesAll
  <1>4. \A q \in Process \ {p} : q \in missedBy[m] /\ order[m].at = "fallback" => q \in missed
    OBVIOUS
  <1>5. \A q \in Process \ {p} : order[m].at = "paid" => q \in missed
    OBVIOUS
  <1> HIDE DEF p, missed
  <1>6. NotifierTypes'
    <2>1. order' \in [Message -> OrderState] /\ missedBy' \in [Message -> SUBSET Process]
      BY <1>1, <1>2 DEF NotifierInv, NotifierTypes, OrderState
    <2> QED
      BY <1>2, <1>3, <2>1 DEF NotifierInv, NotifierTypes
  <1>7. ASSUME NEW s \in Screen, NEW n \in Message, screen'[s].at = "ready",
               order'[n].at \notin {"unpaid", "paid"}
        PROVE  Accounted(s, n)'
    <2>1. screen[s].at = "ready" /\ screen[s].of \in Process /\ screen'[s].of = screen[s].of
      BY <1>3, <1>7 DEF NotifierInv, NotifierTypes, ScreenState
    <2>2. CASE n # m
      <3>1. order'[n] = order[n] /\ missedBy'[n] = missedBy[n]
        BY <1>2, <2>2 DEF NotifierInv, NotifierTypes
      <3>2. Accounted(s, n)
        BY <1>7, <2>1, <3>1 DEF NotifierInv, NothingLost
      <3> QED
        BY <1>2, <1>3, <2>1, <3>1, <3>2 DEF Accounted, HeldFor
    <2>3. CASE n = m /\ screen[s].of = p
      BY <1>3, <2>1, <2>3 DEF Registered, Accounted, HeldFor
    <2>4. CASE n = m /\ screen[s].of # p
      <3>1. missedBy'[m] = missed
        BY <1>2 DEF NotifierInv, NotifierTypes
      <3>2. CASE order[m].at = "paid"
        BY <1>5, <2>1, <2>4, <3>1, <3>2 DEF Accounted, HeldFor
      <3>3. CASE order[m].at = "fallback"
        <4>1. Accounted(s, m)
          BY <2>1, <3>3 DEF NotifierInv, NothingLost
        <4> QED
          BY <1>2, <1>3, <1>4, <2>1, <2>4, <3>1, <3>3, <4>1 DEF Accounted, HeldFor
      <3> QED
        BY <1>2, <3>2, <3>3
    <2> QED
      BY <2>2, <2>3, <2>4
  <1> QED
    BY <1>6, <1>7 DEF NotifierInv, NothingLost

LEMMA HearStep == ASSUME NotifierInv, NEW p \in Process, Hear(p) PROVE NotifierInv'
  <1> DEFINE m == Head(wire[p])
  <1>1. /\ UNCHANGED <<notifier, listener, order, missedBy>> /\ BroadcastLocal(p, m)
        /\ wire' = [wire EXCEPT ![p] = Tail(wire[p])] /\ wire[p] # <<>>
    BY DEF Hear
  <1>2. /\ m \in Message /\ Tail(wire[p]) \in Seq(Message)
        /\ Range(wire[p]) = {m} \cup Range(Tail(wire[p]))
    <2>1. wire[p] \in Seq(Message)
      BY DEF NotifierInv, NotifierTypes
    <2> QED
      BY <1>1, <2>1, HeldByHeadAndTail
  <1> HIDE DEF m
  <1>3. /\ screen' \in [Screen -> ScreenState]
        /\ \A s \in Screen : Len(screen'[s].queue) <= BufferSize
        /\ \A s \in Screen :
             /\ screen'[s].at = screen[s].at /\ screen'[s].of = screen[s].of
             /\ screen'[s].sending = screen[s].sending /\ screen'[s].shown = screen[s].shown
             /\ Range(screen[s].queue) \cup screen[s].dropped
                  \subseteq Range(screen'[s].queue) \cup screen'[s].dropped
             /\ Registered(s, p) => m \in Range(screen'[s].queue) \cup screen'[s].dropped
    BY <1>1, <1>2, BroadcastReachesAll
  <1>4. NotifierTypes'
    BY <1>1, <1>2, <1>3 DEF NotifierInv, NotifierTypes
  <1>5. ASSUME NEW s \in Screen, NEW n \in Message, screen'[s].at = "ready",
               order'[n].at \notin {"unpaid", "paid"}
        PROVE  Accounted(s, n)'
    <2>1. screen[s].at = "ready" /\ screen[s].of \in Process /\ screen'[s].of = screen[s].of
      BY <1>3, <1>5 DEF NotifierInv, NotifierTypes, ScreenState
    <2>2. Accounted(s, n)
      BY <1>1, <1>5, <2>1 DEF NotifierInv, NothingLost
    <2>3. CASE screen[s].of # p
      <3>1. wire'[screen[s].of] = wire[screen[s].of]
        BY <1>1, <2>1, <2>3 DEF NotifierInv, NotifierTypes
      <3> QED
        BY <1>1, <1>3, <2>1, <2>2, <3>1 DEF Accounted, HeldFor
    <2>4. CASE screen[s].of = p
      <3>1. wire'[p] = Tail(wire[p]) /\ Registered(s, p)
        BY <1>1, <2>1, <2>4 DEF NotifierInv, NotifierTypes, Registered
      <3> QED
        BY <1>1, <1>2, <1>3, <2>1, <2>2, <2>4, <3>1 DEF Accounted, HeldFor
    <2> QED
      BY <2>3, <2>4
  <1> QED
    BY <1>4, <1>5 DEF NotifierInv, NothingLost

(* Lemma: a screen connects, is sent the snapshot, or is gone.             *)
LEMMA ScreenComesAndGoes ==
  ASSUME NotifierInv, NEW s \in Screen,
         \/ \E p \in Api : Register(s, p)
         \/ Snapshot(s) \/ JoinFails(s) \/ SendFails(s) \/ Leave(s)
  PROVE  NotifierInv'
  <1>1. screen[s] \in ScreenState /\ Len(screen[s].queue) <= BufferSize
    BY DEF NotifierInv, NotifierTypes
  <1>2. CASE \E p \in Api : Register(s, p)
    <2>1. PICK p \in Api : Register(s, p)
      BY <1>2
    <2> DEFINE c == [Away EXCEPT !.at = "joining", !.of = p]
    <2>2. c \in ScreenState /\ c.queue = Away.queue /\ c.at = "joining"
      BY NotifierAssumption, AwayAndUnpaid DEF ScreenState, Away
    <2>3. Set(s, c) /\ OthersUnchanged
      BY <2>1 DEF Register
    <2> HIDE DEF c
    <2> QED
      BY <2>2, <2>3, AwayAndUnpaid, ConnectionSteps
  <1>3. CASE Snapshot(s)
    <2> DEFINE paid == {m \in Message : order[m].at # "unpaid"}
               recent == {m \in Message : order[m].recent}
               c == [screen[s] EXCEPT !.at = "ready",
                                      !.shown = screen[s].shown \cup recent,
                                      !.dropped = screen[s].dropped \cup (paid \ recent)]
    <2>1. Set(s, c) /\ OthersUnchanged
      BY <1>3 DEF Snapshot
    <2>2. /\ c \in ScreenState /\ c.queue = screen[s].queue
          /\ c.shown = screen[s].shown \cup recent
          /\ c.dropped = screen[s].dropped \cup (paid \ recent)
      BY <1>1 DEF ScreenState
    <2>3. \A m \in Message : order[m].at \notin {"unpaid", "paid"} => m \in paid
      OBVIOUS
    <2> HIDE DEF c, paid, recent
    <2>4. \A m \in Message : order[m].at \notin {"unpaid", "paid"} => HeldFor(c, m)
      BY <2>2, <2>3 DEF Accounted, HeldFor
    <2> QED
      BY <1>1, <2>1, <2>2, <2>4, ConnectionSteps
  <1>4. CASE JoinFails(s)
    <2> DEFINE c == [screen[s] EXCEPT !.at = "lost"]
    <2>1. Set(s, c) /\ OthersUnchanged
      BY <1>4 DEF JoinFails
    <2>2. c \in ScreenState /\ c.queue = screen[s].queue /\ c.at = "lost"
      BY <1>1 DEF ScreenState
    <2> HIDE DEF c
    <2> QED
      BY <1>1, <2>1, <2>2, ConnectionSteps
  <1>5. CASE SendFails(s) \/ Leave(s)
    <2>1. Set(s, Away) /\ OthersUnchanged
      BY <1>5 DEF SendFails, Leave
    <2>2. Away.at = "away"
      BY DEF Away
    <2> QED
      BY <2>1, <2>2, AwayAndUnpaid, ConnectionSteps
  <1> QED
    BY <1>2, <1>3, <1>4, <1>5

(* Lemma: the sender takes a message from the queue, and sends it.         *)
LEMMA SenderSteps ==
  ASSUME NotifierInv, NEW s \in Screen, Take(s) \/ Show(s)
  PROVE  NotifierInv'
  <1> DEFINE b == screen[s]
  <1>1. /\ b \in ScreenState /\ Len(b.queue) <= BufferSize
        /\ b.queue \in Seq(Message) /\ BufferSize \in Nat
    BY NotifierAssumption DEF NotifierInv, NotifierTypes, ScreenState
  <1>2. b.at = "ready" => \A m \in Message :
           order[m].at \notin {"unpaid", "paid"} => HeldFor(b, m)
    BY DEF NotifierInv, NothingLost, Accounted
  <1>3. CASE Take(s)
    <2> DEFINE c == [b EXCEPT !.sending = {Head(b.queue)}, !.queue = Tail(b.queue)]
    <2>1. Set(s, c) /\ OthersUnchanged /\ b.sending = {} /\ b.queue # <<>>
      BY <1>3 DEF Take
    <2> HIDE DEF b
    <2>2. /\ Head(b.queue) \in Message /\ Tail(b.queue) \in Seq(Message)
          /\ Len(Tail(b.queue)) = Len(b.queue) - 1
          /\ Range(b.queue) = {Head(b.queue)} \cup Range(Tail(b.queue))
      BY <1>1, <2>1, HeldByHeadAndTail
    <2>3. /\ c \in ScreenState /\ c.at = b.at /\ c.of = b.of
          /\ c.shown = b.shown /\ c.dropped = b.dropped
          /\ c.sending = {Head(b.queue)} /\ c.queue = Tail(b.queue)
      BY <1>1, <2>2 DEF ScreenState
    <2>4. Len(c.queue) <= BufferSize
      <3>1. Len(b.queue) \in Nat
        BY <1>1
      <3> QED
        BY <1>1, <2>2, <2>3, <3>1
    <2> HIDE DEF c
    <2>5. \A m \in Message : HeldFor(b, m) => HeldFor(c, m)
      BY <2>1, <2>2, <2>3 DEF Accounted, HeldFor
    <2> QED
      BY <1>2, <2>1, <2>3, <2>4, <2>5, ConnectionSteps
  <1>4. CASE Show(s)
    <2> DEFINE c == [b EXCEPT !.sending = {}, !.shown = b.shown \cup b.sending]
    <2>1. Set(s, c) /\ OthersUnchanged
      BY <1>4 DEF Show
    <2> HIDE DEF b
    <2>3. /\ c \in ScreenState /\ c.at = b.at /\ c.of = b.of
          /\ c.shown = b.shown \cup b.sending /\ c.dropped = b.dropped
          /\ c.sending = {} /\ c.queue = b.queue
      BY <1>1 DEF ScreenState
    <2> HIDE DEF c
    <2>5. \A m \in Message : HeldFor(b, m) => HeldFor(c, m)
      BY <2>3 DEF Accounted, HeldFor
    <2> QED
      BY <1>1, <1>2, <2>1, <2>3, <2>5, ConnectionSteps
  <1> QED
    BY <1>3, <1>4

(* Lemma: every step keeps the invariant.                                  *)
LEMMA NotifierStep == NotifierInv /\ [NotifierNext]_notifierVars => NotifierInv'
  <1> SUFFICES ASSUME NotifierInv, [NotifierNext]_notifierVars PROVE NotifierInv'
    OBVIOUS
  <1>1. CASE UNCHANGED notifierVars
    BY <1>1 DEF notifierVars, NotifierInv, NotifierTypes, NothingLost, Accounted, HeldFor
  <1>2. CASE \E p \in Process : Startup(p) \/ Subscribe(p) \/ ListenerError(p) \/ Stop(p) \/ Hear(p)
    BY <1>2, ProcessSteps, HearStep
  <1>3. CASE \E m \in Message : \/ \E p \in Process : OrderPaid(m, p)
                                \/ OrderAges(m) \/ Publish(m) \/ PublishFails(m) \/ Fallback(m)
    BY <1>3, PublicationSteps, FallbackStep
  <1>4. CASE \E s \in Screen : \/ \E p \in Api : Register(s, p)
                               \/ Snapshot(s) \/ JoinFails(s) \/ Take(s) \/ Show(s)
                               \/ SendFails(s) \/ Leave(s)
    BY <1>4, ScreenComesAndGoes, SenderSteps
  <1> QED
    BY <1>1, <1>2, <1>3, <1>4 DEF NotifierNext

(* The queues, the connections and the broadcasts have the states that the *)
(* code gives them.                                                        *)
THEOREM NotifierTypeCorrect == NotifierSpec => []NotifierTypeOK
  <1>1. NotifierInv => NotifierTypeOK
    BY DEF NotifierInv, NotifierTypes, NotifierTypeOK, ScreenState, OrderState
  <1> QED
    BY <1>1, NotifierStarts, NotifierStep, PTL DEF NotifierSpec

(* A connected screen has seen every paid order, or will, unless its queue *)
(* overflowed, the order was no longer recent when it connected, or its    *)
(* process did not hear Redis; whatever fails, and whenever.               *)
THEOREM NoGapAlways == NotifierSpec => []NoGap
  <1>1. NotifierInv => NoGap
    <2> SUFFICES ASSUME NotifierInv, NEW s \in Screen, NEW m \in Message,
                        screen[s].at = "ready", order[m].at # "unpaid"
                 PROVE  \/ m \in screen[s].shown \cup screen[s].dropped
                        \/ OnItsWay(m, s)
                        \/ screen[s].of \in missedBy[m]
      BY DEF NoGap
    <2>1. CASE order[m].at = "paid"
      BY <2>1 DEF OnItsWay
    <2>2. CASE order[m].at # "paid"
      BY <2>2 DEF NotifierInv, NothingLost, Accounted, HeldFor, OnItsWay
    <2> QED
      BY <2>1, <2>2
  <1> QED
    BY <1>1, NotifierStarts, NotifierStep, PTL DEF NotifierSpec

-----------------------------------------------------------------------------
(* The plan of a reservation: the answer is the next opening, and slots    *)
(* never overlap, for any opening hours, any length of a slot, of an hour  *)
(* and of a day, and any number of requests.                               *)

(* Lemma: a time is so many periods and a rest.                            *)
LEMMA PeriodsAndRest ==
  ASSUME NEW t \in Nat, NEW n \in Nat \ {0}
  PROVE  t \div n \in Nat /\ t % n \in 0..n-1 /\ t = (t \div n) * n + (t % n)
  OBVIOUS

(* Lemma: and is told by them.                                             *)
LEMMA RestIsUnique ==
  ASSUME NEW n \in Nat \ {0}, NEW k \in Nat, NEW r \in 0..n-1
  PROVE  /\ k * n \in Nat /\ k * n + r \in Nat
         /\ (k * n + r) \div n = k /\ (k * n + r) % n = r
  OBVIOUS

(* Lemma: more periods are at least one period more.                       *)
LEMMA OnePeriodMore ==
  ASSUME NEW n \in Nat \ {0}, NEW j \in Nat, NEW k \in Nat, j < k
  PROVE  (j + 1) * n <= k * n /\ (j + 1) * n = j * n + n
  OBVIOUS

(* Lemma: a set of times has a first one, and Min is it.                   *)
LEMMA FirstTime ==
  ASSUME NEW T \in SUBSET Nat, T # {}
  PROVE  Min(T) \in T /\ \A u \in T : Min(T) <= u
  <1> DEFINE Family == {0..x : x \in T}
             Below == StrictSubsetOrdering(Nat)
  <1>1. Family \subseteq FiniteSubsetsOf(Nat)
    <2> SUFFICES ASSUME NEW x \in T PROVE 0..x \in FiniteSubsetsOf(Nat)
      OBVIOUS
    <2>1. IsFiniteSet(0..x)
      BY FS_Interval
    <2> QED
      BY <2>1 DEF FiniteSubsetsOf
  <1>2. Family # {}
    OBVIOUS
  <1>3. IsWellFoundedOn(Below, FiniteSubsetsOf(Nat))
    BY FS_StrictSubsetOrderingWellFounded
  <1> HIDE DEF Below
  <1>4. \E S \in Family : \A U \in Family : <<U, S>> \notin Below
    BY <1>1, <1>2, <1>3, WFMin
  <1>5. PICK x \in T : \A y \in T : <<0..y, 0..x>> \notin Below
    BY <1>4
  <1>6. ASSUME NEW y \in T, y < x PROVE FALSE
    <2>1. x \in Nat /\ y \in Nat
      OBVIOUS
    <2>2. 0..y \subseteq 0..x /\ x \in 0..x /\ x \notin 0..y
      BY <1>6, <2>1
    <2>3. <<0..y, 0..x>> \in Below
      BY <2>1, <2>2 DEF Below, StrictSubsetOrdering
    <2> QED
      BY <1>5, <2>3
  <1>7. \E u \in T : \A v \in T : u <= v
    BY <1>6
  <1> QED
    BY <1>7 DEF Min

(* Lemma: nothing else is the first of them.                               *)
LEMMA FirstIsUnique ==
  ASSUME NEW T \in SUBSET Nat, NEW u \in T, \A v \in T : u <= v
  PROVE  Min(T) = u
  <1>1. T # {} /\ u \in Nat
    OBVIOUS
  <1>2. Min(T) \in T /\ Min(T) <= u
    BY <1>1, FirstTime
  <1>3. Min(T) \in Nat /\ u <= Min(T)
    BY <1>2
  <1> QED
    BY <1>1, <1>2, <1>3

(* Lemma: what part of a day and which day a time is.                      *)
LEMMA DayAndTime ==
  ASSUME NEW t \in Nat
  PROVE  /\ DateOf(t) \in Nat /\ t % Day \in 0..Day-1
         /\ t = DateOf(t) * Day + (t % Day)
         /\ DateOf(t) * Day \in Nat
         /\ (DateOf(t) + 1) * Day = DateOf(t) * Day + Day
         /\ (DateOf(t) + 2) * Day = DateOf(t) * Day + Day + Day
  <1>1. Day \in Nat \ {0}
    BY PlanAssumption
  <1>2. t \div Day \in Nat /\ t % Day \in 0..Day-1 /\ t = (t \div Day) * Day + (t % Day)
    BY <1>1, PeriodsAndRest
  <1> DEFINE d == t \div Day
  <1> HIDE DEF d
  <1>3. d \in Nat => d * Day \in Nat /\ (d + 1) * Day = d * Day + Day
                     /\ (d + 2) * Day = d * Day + Day + Day
    BY <1>1
  <1> QED
    BY <1>2, <1>3 DEF d, DateOf

(* Lemma: the times of a day lie in it.                                    *)
LEMMA TimesOfDay ==
  ASSUME NEW d \in Nat, NEW x \in 0..Day-1
  PROVE  /\ d * Day + x \in Nat /\ DateOf(d * Day + x) = d /\ (d * Day + x) % Day = x
  BY PlanAssumption, RestIsUnique DEF DateOf

(* Lemma: a later day begins after an earlier one.                         *)
LEMMA LaterDay ==
  ASSUME NEW t \in Nat, NEW d \in Nat, d < DateOf(t)
  PROVE  d * Day + Day <= t
  <1>1. Day \in Nat \ {0} /\ DateOf(t) \in Nat /\ t \in Nat /\ t % Day \in Nat
        /\ t = DateOf(t) * Day + (t % Day)
    BY PlanAssumption, DayAndTime
  <1>2. (d + 1) * Day <= DateOf(t) * Day /\ (d + 1) * Day = d * Day + Day
    BY <1>1, OnePeriodMore
  <1>3. DateOf(t) * Day <= t /\ DateOf(t) * Day \in Nat /\ d * Day \in Nat
    BY <1>1
  <1> QED
    BY <1>1, <1>2, <1>3

(* Lemma: the ranges of a date are those that the shop is open on then.    *)
LEMMA RangesAreOpen ==
  ASSUME NEW date
  PROVE  RangesOfDate(date) = {r \in openHours : OpenOn(date, r)}
  BY DEF RangesOfDate, RangesOf, OwnRangesOf, OpenOn

(* Lemma: the openings are those of today from now on, and of tomorrow.    *)
LEMMA OpeningsAre ==
  ASSUME NEW t \in Nat, NEW u, openHours \in Hours \ {NoHours}
  PROVE  u \in Openings(t) <=>
           /\ u \in Nat /\ t <= u
           /\ DateOf(u) \in {DateOf(t), DateOf(t) + 1}
           /\ \E r \in RangesOfDate(DateOf(u)) : r.start <= u % Day /\ u % Day <= r.end
  <1> DEFINE d == DateOf(t)
  <1>1. /\ Day \in Nat \ {0} /\ d \in Nat /\ t \in Nat /\ d * Day \in Nat /\ t < d * Day + Day
        /\ (d + 2) * Day = d * Day + Day + Day /\ (d + 1) * Day = d * Day + Day
    <2>1. Day \in Nat \ {0}
      BY PlanAssumption
    <2>2. /\ d \in Nat /\ t % Day \in 0..Day-1 /\ t = d * Day + (t % Day)
          /\ d * Day \in Nat
          /\ (d + 2) * Day = d * Day + Day + Day /\ (d + 1) * Day = d * Day + Day
      BY DayAndTime
    <2>3. t < d * Day + Day
      <3> DEFINE x == t % Day
                 y == d * Day
      <3>1. x \in 0..Day-1 /\ t = y + x /\ y \in Nat
        BY <2>2
      <3> HIDE DEF x, y, d
      <3>2. t < y + Day
        BY <2>1, <3>1
      <3> QED
        BY <3>2 DEF y
    <2> QED
      BY <2>1, <2>2, <2>3
  <1>2. u \in Openings(t) <=>
          /\ u \in t..(d + 2) * Day - 1
          /\ \E r \in RangesOfDate(DateOf(u)) : u % Day \in r.start..r.end
    BY RangesAreOpen DEF Openings
  <1> HIDE DEF d
  <1>3. u \in t..(d + 2) * Day - 1 <=> u \in Nat /\ t <= u /\ u < d * Day + Day + Day
    BY <1>1
  <1>4. ASSUME u \in Nat, t <= u
        PROVE  u < d * Day + Day + Day <=> DateOf(u) \in {d, d + 1}
    <2>1. /\ DateOf(u) \in Nat /\ u % Day \in 0..Day-1 /\ u = DateOf(u) * Day + (u % Day)
      BY <1>4, DayAndTime
    <2>2. ASSUME DateOf(u) < d PROVE FALSE
      <3>1. DateOf(u) * Day + Day <= t
        BY <1>1, <2>1, <2>2, LaterDay DEF d
      <3>2. DateOf(u) * Day \in Nat
        BY <1>1, <2>1
      <3> QED
        BY <1>1, <1>4, <2>1, <3>1, <3>2
    <2>3. ASSUME d + 1 < DateOf(u) PROVE d * Day + Day + Day <= u
      <3>1. (d + 1) * Day + Day <= u
        BY <1>1, <1>4, <2>3, LaterDay
      <3> QED
        BY <1>1, <3>1
    <2>4. ASSUME DateOf(u) \in {d, d + 1} PROVE u < d * Day + Day + Day
      <3>1. DateOf(u) * Day <= d * Day + Day
        BY <1>1, <2>4
      <3>2. DateOf(u) * Day \in Nat
        BY <1>1, <2>1
      <3> QED
        BY <1>1, <1>4, <2>1, <3>1, <3>2
    <2>5. DateOf(u) \in {d, d + 1} \/ DateOf(u) < d \/ d + 1 < DateOf(u)
      <3> DEFINE e == DateOf(u)
      <3>1. d \in Nat /\ e \in Nat
        BY <1>1, <2>1
      <3> HIDE DEF e
      <3>2. e \in {d, d + 1} \/ e < d \/ d + 1 < e
        BY <3>1
      <3> QED
        BY <3>2 DEF e
    <2> QED
      BY <1>1, <1>4, <2>2, <2>3, <2>4, <2>5
  <1>5. ASSUME u \in Nat, NEW r \in RangesOfDate(DateOf(u))
        PROVE  u % Day \in r.start..r.end <=> r.start <= u % Day /\ u % Day <= r.end
    <2>1. r \in openHours
      BY <1>5, RangesAreOpen
    <2>2. r.start \in Nat /\ r.end \in Nat
      BY <1>1, <1>5, <2>1, PlanAssumption
    <2>3. u % Day \in Nat
      BY <1>1, <1>5, PeriodsAndRest
    <2> QED
      BY <2>2, <2>3
  <1> QED
    BY <1>2, <1>3, <1>4, <1>5 DEF d

(* Lemma: a range lies within a day.                                       *)
LEMMA RangeOfDay ==
  ASSUME openHours \in Hours \ {NoHours}, NEW date, NEW r \in RangesOfDate(date)
  PROVE  /\ r.start \in Nat /\ r.end \in Nat
         /\ r.start \in 0..Day-1 /\ r.end \in 0..Day-1
         /\ RegularHours => r.start <= r.end
  <1>1. r \in openHours
    BY RangesAreOpen
  <1>2. r.start \in 0..Day-1 /\ r.end \in 0..Day-1
    BY <1>1, PlanAssumption
  <1>3. RegularHours => r.start <= r.end
    BY <1>1 DEF RegularHours
  <1> QED
    BY <1>2, <1>3, PlanAssumption

(* Lemma: the first start of some ranges of a date.                        *)
LEMMA FirstStart ==
  ASSUME openHours \in Hours \ {NoHours}, NEW date, NEW R \in SUBSET RangesOfDate(date), R # {}
  PROVE  LET first == Min({r.start : r \in R}) IN
         /\ first \in 0..Day-1 /\ first \in Nat
         /\ \A r \in R : first <= r.start
         /\ \E r \in R : first = r.start
  <1> DEFINE starts == {r.start : r \in R}
  <1>1. starts \in SUBSET Nat /\ starts # {} /\ starts \subseteq 0..Day-1
    BY RangeOfDay
  <1>2. \A r \in R : r.start \in starts
    OBVIOUS
  <1>3. \A x \in starts : \E r \in R : x = r.start
    OBVIOUS
  <1> HIDE DEF starts
  <1>4. Min(starts) \in starts /\ \A x \in starts : Min(starts) <= x
    BY <1>1, FirstTime
  <1>5. /\ Min(starts) \in 0..Day-1 /\ Min(starts) \in Nat
        /\ \A r \in R : Min(starts) <= r.start
        /\ \E r \in R : Min(starts) = r.start
    BY <1>1, <1>2, <1>3, <1>4
  <1> QED
    BY <1>5 DEF starts

(* Lemma: an opening on the day of t or the day after it, at the start of  *)
(* the range that it lies in and not before t, is one of the openings.     *)
LEMMA StartIsOpening ==
  ASSUME openHours \in Hours \ {NoHours}, RegularHours, NEW t \in Nat,
         NEW d \in {DateOf(t), DateOf(t) + 1},
         NEW r \in RangesOfDate(d), NEW x, x = r.start, t <= d * Day + x
  PROVE  d * Day + x \in Openings(t)
  <1>1. d \in Nat /\ DateOf(t) \in Nat
    <2>1. DateOf(t) \in Nat
      BY DayAndTime
    <2> QED
      BY <2>1
  <1>2. x \in 0..Day-1 /\ x <= r.end
    BY RangeOfDay
  <1>3. /\ d * Day + x \in Nat /\ DateOf(d * Day + x) = d /\ (d * Day + x) % Day = x
    BY <1>1, <1>2, TimesOfDay
  <1>4. x \in Nat
    BY <1>2, RangeOfDay
  <1> DEFINE u == d * Day + x
  <1>5. u \in Nat /\ t <= u /\ DateOf(u) = d /\ u % Day = x
    BY <1>3
  <1> HIDE DEF u
  <1>6. r.start <= u % Day /\ u % Day <= r.end
    BY <1>2, <1>4, <1>5, RangeOfDay
  <1>7. u \in Openings(t)
    BY <1>5, <1>6, OpeningsAre
  <1> QED
    BY <1>7 DEF u

(* Lemma: the alignment returns the first opening, or nothing if there is  *)
(* none today and tomorrow.                                                *)
LEMMA AlignIsNext ==
  ASSUME openHours \in Hours \ {NoHours}, RegularHours, NEW t \in Nat
  PROVE  AlignToOpenHours(t) = IF Openings(t) = {} THEN NoTime ELSE Min(Openings(t))
  <1> DEFINE d == DateOf(t)
             x == t % Day
             today == {r \in RangesOfDate(d) : x <= r.end}
             opening == Min({r.start : r \in today})
             tomorrow == RangesOfDate(d + 1)
             earliest == Min({r.start : r \in tomorrow})
  <1>1. /\ d \in Nat /\ x \in 0..Day-1 /\ t = d * Day + x /\ d * Day \in Nat
        /\ (d + 1) * Day = d * Day + Day /\ Day \in Nat \ {0} /\ d + 1 \in Nat
        /\ x \in Nat
    <2>1. Day \in Nat \ {0}
      BY PlanAssumption
    <2>2. /\ d \in Nat /\ x \in 0..Day-1 /\ t = d * Day + x /\ d * Day \in Nat
          /\ (d + 1) * Day = d * Day + Day
      BY DayAndTime
    <2> HIDE DEF d, x
    <2>3. d + 1 \in Nat /\ x \in Nat
      BY <2>1, <2>2
    <2> QED
      BY <2>1, <2>2, <2>3
  <1>2. Openings(t) \in SUBSET Nat
    BY OpeningsAre
  \* What an opening today or tomorrow tells of the ranges.
  <1>3. ASSUME NEW u \in Openings(t)
        PROVE  /\ u \in Nat /\ t <= u
               /\ \/ \E r \in today : u = d * Day + (u % Day) /\ r.start <= u % Day
                  \/ \E r \in tomorrow : u = d * Day + Day + (u % Day) /\ r.start <= u % Day
    <2>1. /\ u \in Nat /\ t <= u /\ DateOf(u) \in {d, d + 1}
      BY <1>3, OpeningsAre
    <2>2. PICK r \in RangesOfDate(DateOf(u)) : r.start <= u % Day /\ u % Day <= r.end
      BY <1>3, <2>1, OpeningsAre
    <2>3. u % Day \in Nat /\ u = DateOf(u) * Day + (u % Day)
      BY <2>1, DayAndTime
    <2>4. r.start \in Nat /\ r.end \in Nat
      BY RangeOfDay
    <2> HIDE DEF d, x
    <2>5. CASE DateOf(u) = d
      <3>1. u = d * Day + (u % Day)
        BY <2>3, <2>5
      <3>2. x <= u % Day
        <4> DEFINE y == u % Day
                   b == d * Day
        <4>1. y \in Nat /\ b \in Nat /\ x \in Nat /\ t = b + x /\ u = b + y /\ t <= u
          BY <1>1, <2>1, <2>3, <3>1
        <4> HIDE DEF y, b
        <4>2. x <= y
          BY <4>1
        <4> QED
          BY <4>2 DEF y
      <3>3. x <= r.end
        <4> DEFINE y == u % Day
        <4>1. y \in Nat /\ x <= y /\ y <= r.end
          BY <2>2, <2>3, <3>2
        <4> HIDE DEF y
        <4> QED
          BY <1>1, <2>4, <4>1
      <3>4. r \in today
        BY <2>5, <3>3
      <3> QED
        BY <2>1, <2>2, <3>1, <3>4
    <2>6. CASE DateOf(u) = d + 1
      BY <1>1, <2>1, <2>2, <2>3, <2>6
    <2> QED
      BY <2>1, <2>5, <2>6
  <1>4. AlignToOpenHours(t) =
          CASE WithinOpenHours(t) -> t
            [] ~ WithinOpenHours(t) /\ today # {} ->
                 IF x < opening THEN d * Day + opening ELSE t
            [] ~ WithinOpenHours(t) /\ today = {} /\ tomorrow # {} -> (d + 1) * Day + earliest
            [] OTHER -> NoTime
    BY DEF AlignToOpenHours
  <1>5. WithinOpenHours(t) <=> \E r \in RangesOfDate(d) : r.start <= x /\ x <= r.end
    BY DEF WithinOpenHours
  <1>6. CASE WithinOpenHours(t)
    <2>1. t \in Openings(t)
      BY <1>1, <1>5, <1>6, OpeningsAre
    <2>2. \A u \in Openings(t) : t <= u
      BY <1>3
    <2>3. Min(Openings(t)) = t
      BY <1>2, <2>1, <2>2, FirstIsUnique
    <2> HIDE DEF d, x, today, tomorrow, opening, earliest
    <2> QED
      BY <1>4, <1>6, <2>1, <2>3
  <1>7. CASE ~ WithinOpenHours(t) /\ today # {}
    <2>1. /\ opening \in 0..Day-1 /\ opening \in Nat
          /\ \A r \in today : opening <= r.start
          /\ \E r \in today : opening = r.start
      <3>1. today \in SUBSET RangesOfDate(d)
        OBVIOUS
      <3> HIDE DEF today
      <3> QED
        BY <1>7, <3>1, FirstStart
    <2>2. PICK r \in today : opening = r.start
      BY <2>1
    <2>3. r \in RangesOfDate(d) /\ x <= r.end
      OBVIOUS
    <2>4. ~ (r.start <= x)
      BY <1>5, <1>7, <2>3
    <2> HIDE DEF today, opening, d, x, tomorrow, earliest
    <2>5. x < opening
      BY <1>1, <2>1, <2>2, <2>4
    <2>6. t <= d * Day + opening
      BY <1>1, <2>1, <2>5
    <2>7. d * Day + opening \in Openings(t)
      BY <2>2, <2>3, <2>6, StartIsOpening DEF d
    <2>8. ASSUME NEW u \in Openings(t) PROVE d * Day + opening <= u
      <3> DEFINE y == u % Day
                 b == d * Day
      <3>0. y \in Nat
        <4>1. u \in Nat
          BY <1>3
        <4> QED
          BY <4>1, DayAndTime
      <3>1. CASE \E q \in today : u = b + y /\ q.start <= y
        <4>1. PICK q \in today : u = b + y /\ q.start <= y
          BY <3>1
        <4>2. opening <= q.start /\ q.start \in Nat
          <5>1. q \in RangesOfDate(d)
            BY DEF today
          <5> QED
            BY <2>1, <5>1, RangeOfDay
        <4> HIDE DEF y, b
        <4>3. b \in Nat
          BY <1>1 DEF b
        <4>4. b + opening <= u
          BY <2>1, <3>0, <4>1, <4>2, <4>3
        <4> QED
          BY <4>4 DEF b
      <3>2. CASE \E q \in tomorrow : u = b + Day + y /\ q.start <= y
        <4>1. u = b + Day + y /\ b \in Nat /\ opening < Day
          BY <1>1, <2>1, <3>2
        <4> HIDE DEF y, b
        <4>2. b + opening <= u
          BY <1>1, <2>1, <3>0, <4>1
        <4> QED
          BY <4>2 DEF b
      <3> QED
        BY <1>3, <3>1, <3>2
    <2>9. Min(Openings(t)) = d * Day + opening
      BY <1>2, <2>7, <2>8, FirstIsUnique
    <2> QED
      BY <1>4, <1>7, <2>5, <2>7, <2>9
  <1>8. CASE ~ WithinOpenHours(t) /\ today = {} /\ tomorrow # {}
    <2>1. /\ earliest \in 0..Day-1 /\ earliest \in Nat
          /\ \A r \in tomorrow : earliest <= r.start
          /\ \E r \in tomorrow : earliest = r.start
      <3>1. tomorrow \in SUBSET RangesOfDate(d + 1)
        OBVIOUS
      <3> HIDE DEF tomorrow
      <3> QED
        BY <1>8, <3>1, FirstStart
    <2>2. PICK r \in tomorrow : earliest = r.start
      BY <2>1
    <2>3. r \in RangesOfDate(d + 1)
      OBVIOUS
    <2> HIDE DEF today, opening, d, x, tomorrow, earliest
    <2>6. t <= (d + 1) * Day + earliest
      BY <1>1, <2>1
    <2>7. (d + 1) * Day + earliest \in Openings(t)
      BY <2>2, <2>3, <2>6, StartIsOpening DEF d
    <2>8. ASSUME NEW u \in Openings(t) PROVE (d + 1) * Day + earliest <= u
      <3> DEFINE y == u % Day
                 b == d * Day + Day
      <3>1. y \in Nat
        <4>1. u \in Nat
          BY <1>3
        <4> QED
          BY <4>1, DayAndTime
      <3>2. PICK q \in tomorrow : u = b + y /\ q.start <= y
        BY <1>3, <1>8
      <3>3. earliest <= q.start /\ q.start \in Nat
        <4>1. q \in RangesOfDate(d + 1)
          BY DEF tomorrow
        <4> QED
          BY <2>1, <4>1, RangeOfDay
      <3>4. b \in Nat /\ b = (d + 1) * Day
        BY <1>1
      <3> HIDE DEF y, b
      <3>5. b + earliest <= u
        BY <2>1, <3>1, <3>2, <3>3, <3>4
      <3> QED
        BY <3>4, <3>5
    <2>9. Min(Openings(t)) = (d + 1) * Day + earliest
      BY <1>2, <2>7, <2>8, FirstIsUnique
    <2> QED
      BY <1>4, <1>8, <2>7, <2>9
  <1>9. CASE ~ WithinOpenHours(t) /\ today = {} /\ tomorrow = {}
    <2> HIDE DEF today, opening, d, x, tomorrow, earliest
    <2>1. Openings(t) = {}
      BY <1>3, <1>9
    <2>2. AlignToOpenHours(t) = NoTime
      BY <1>4, <1>9
    <2> QED
      BY <2>1, <2>2
  <1> QED
    BY <1>6, <1>7, <1>8, <1>9

(* Lemma: without opening hours too.                                       *)
LEMMA AlignedIsNext ==
  ASSUME openHours \in Hours, RegularHours, NEW t \in Nat
  PROVE  /\ Aligned(t) = IF Openings(t) = {} THEN NoTime ELSE Min(Openings(t))
         /\ Openings(t) # {} => Min(Openings(t)) \in Nat
  <1>1. CASE openHours = NoHours
    <2>1. Openings(t) = {t} /\ Aligned(t) = t
      BY <1>1 DEF Openings, Aligned
    <2>2. Min({t}) = t
      <3>1. {t} \in SUBSET Nat /\ t \in {t} /\ \A v \in {t} : t <= v
        OBVIOUS
      <3> QED
        BY <3>1, FirstIsUnique
    <2> QED
      BY <2>1, <2>2
  <1>2. CASE openHours # NoHours
    <2>1. Aligned(t) = AlignToOpenHours(t)
      BY <1>2 DEF Aligned
    <2>2. AlignToOpenHours(t) = IF Openings(t) = {} THEN NoTime ELSE Min(Openings(t))
      BY <1>2, AlignIsNext
    <2>3. Openings(t) \in SUBSET Nat
      BY <1>2, OpeningsAre
    <2>4. Openings(t) # {} => Min(Openings(t)) \in Openings(t)
      BY <2>3, FirstTime
    <2> QED
      BY <2>1, <2>2, <2>3, <2>4
  <1> QED
    BY <1>1, <1>2

(* Lemma: the alignment returns a time, whatever the ranges are.           *)
LEMMA AlignedIsTime ==
  ASSUME openHours \in Hours, NEW t \in Nat
  PROVE  Aligned(t) \in Nat \cup {NoTime}
  <1>1. CASE openHours = NoHours
    BY <1>1 DEF Aligned
  <1>2. CASE openHours # NoHours
    <2> DEFINE d == DateOf(t)
               x == t % Day
               today == {r \in RangesOfDate(d) : x <= r.end}
               opening == Min({r.start : r \in today})
               tomorrow == RangesOfDate(d + 1)
               earliest == Min({r.start : r \in tomorrow})
    <2>1. d * Day \in Nat /\ (d + 1) * Day = d * Day + Day /\ Day \in Nat
      BY DayAndTime, PlanAssumption
    <2>2. AlignToOpenHours(t) =
            CASE WithinOpenHours(t) -> t
              [] ~ WithinOpenHours(t) /\ today # {} ->
                   IF x < opening THEN d * Day + opening ELSE t
              [] ~ WithinOpenHours(t) /\ today = {} /\ tomorrow # {} -> (d + 1) * Day + earliest
              [] OTHER -> NoTime
      BY DEF AlignToOpenHours
    <2>3. today # {} => opening \in Nat
      <3>1. today \in SUBSET RangesOfDate(d)
        OBVIOUS
      <3> HIDE DEF today
      <3> QED
        BY <1>2, <3>1, FirstStart
    <2>4. tomorrow # {} => earliest \in Nat
      <3>1. tomorrow \in SUBSET RangesOfDate(d + 1)
        OBVIOUS
      <3> HIDE DEF tomorrow
      <3> QED
        BY <1>2, <3>1, FirstStart
    <2>5. Aligned(t) = AlignToOpenHours(t)
      BY <1>2 DEF Aligned
    <2> HIDE DEF d, x, today, opening, tomorrow, earliest
    <2>6. today # {} => d * Day + opening \in Nat
      BY <2>1, <2>3
    <2>7. tomorrow # {} => (d + 1) * Day + earliest \in Nat
      BY <2>1, <2>4
    <2>8. CASE WithinOpenHours(t)
      BY <2>2, <2>5, <2>8
    <2>9. CASE ~ WithinOpenHours(t) /\ today # {}
      BY <2>2, <2>5, <2>6, <2>9
    <2>10. CASE ~ WithinOpenHours(t) /\ today = {} /\ tomorrow # {}
      BY <2>2, <2>5, <2>7, <2>10
    <2>11. CASE ~ WithinOpenHours(t) /\ today = {} /\ tomorrow = {}
      BY <2>2, <2>5, <2>11
    <2> QED
      BY <2>8, <2>9, <2>10, <2>11
  <1> QED
    BY <1>1, <1>2

(* Lemma: the slot of a time begins within its hour, a whole number of     *)
(* slots after the hour.                                                   *)
LEMMA SlotOfTime ==
  ASSUME NEW t \in Nat
  PROVE  SlotStart(t) \in Nat /\ (SlotStart(t) % Hour) % SlotLength = 0
  <1> DEFINE k == t \div Hour
             r == t % Hour
             j == r \div SlotLength
             u == r % SlotLength
  <1>1. Hour \in Nat \ {0} /\ SlotLength \in Nat \ {0}
    BY PlanAssumption
  <1>2. k \in Nat /\ r \in 0..Hour-1 /\ t = k * Hour + r
    BY <1>1, PeriodsAndRest
  <1>3. j \in Nat /\ u \in 0..SlotLength-1 /\ r = j * SlotLength + u
    <2> HIDE DEF r
    <2>1. r \in Nat
      BY <1>1, <1>2
    <2> QED
      BY <1>1, <2>1, PeriodsAndRest
  <1>4. SlotStart(t) = t - u
    BY DEF SlotStart
  <1> DEFINE a == j * SlotLength
             b == k * Hour
  <1> HIDE DEF k, r, j, u
  <1>5. a \in Nat /\ b \in Nat
    BY <1>1, <1>2, <1>3
  <1>6. r = a + u /\ t = b + r
    BY <1>2, <1>3
  <1>7. a \in 0..Hour-1 /\ SlotStart(t) = b + a
    <2> HIDE DEF a, b
    <2> QED
      BY <1>1, <1>2, <1>3, <1>4, <1>5, <1>6
  <1>8. (b + a) \in Nat /\ (b + a) % Hour = a
    <2> HIDE DEF a
    <2> QED
      BY <1>1, <1>2, <1>7, RestIsUnique
  <1>9. a % SlotLength = 0
    <2>1. 0 \in 0..SlotLength-1 /\ a + 0 = a
      BY <1>1, <1>5
    <2> QED
      BY <1>1, <1>3, <2>1, RestIsUnique
  <1> HIDE DEF a, b
  <1> QED
    BY <1>7, <1>8, <1>9

(* Lemma: where slots divide the hour, they divide the time.               *)
LEMMA SlotsDivideTime ==
  ASSUME Hour % SlotLength = 0, NEW s \in Nat, (s % Hour) % SlotLength = 0
  PROVE  \E i \in Nat : s = i * SlotLength
  <1>1. Hour \in Nat \ {0} /\ SlotLength \in Nat \ {0}
    BY PlanAssumption
  <1> DEFINE k == s \div Hour
             r == s % Hour
             j == r \div SlotLength
             h == Hour \div SlotLength
  <1>2. k \in Nat /\ r \in 0..Hour-1 /\ s = k * Hour + r
    BY <1>1, PeriodsAndRest
  <1>3. j \in Nat /\ r = j * SlotLength
    <2> HIDE DEF r
    <2>1. r \in Nat
      BY <1>1, <1>2
    <2>2. j \in Nat /\ r = j * SlotLength + (r % SlotLength)
      BY <1>1, <2>1, PeriodsAndRest
    <2>3. r % SlotLength = 0
      BY DEF r
    <2>4. j * SlotLength \in Nat
      BY <1>1, <2>2
    <2> QED
      BY <2>2, <2>3, <2>4
  <1>4. h \in Nat /\ Hour = h * SlotLength
    <2>1. h \in Nat /\ Hour = h * SlotLength + (Hour % SlotLength)
      BY <1>1, PeriodsAndRest
    <2>2. h * SlotLength \in Nat
      BY <1>1, <2>1
    <2> QED
      BY <2>1, <2>2
  <1> HIDE DEF k, r, j, h
  <1>5. k * h + j \in Nat
    BY <1>2, <1>3, <1>4
  <1>6. k * (h * SlotLength) + j * SlotLength = (k * h + j) * SlotLength
    BY <1>1, <1>2, <1>3, <1>4
  <1>7. s = (k * h + j) * SlotLength
    BY <1>2, <1>3, <1>4, <1>6
  <1> QED
    BY <1>5, <1>7

Slot == [end : Nat, taken : 0..SlotSeats]

SlotsBegin ==
  \A s \in DOMAIN slots : /\ s \in Nat /\ slots[s] \in Slot
                          /\ slots[s].end = s + SlotLength
                          /\ (s % Hour) % SlotLength = 0

AnswerIsNext ==
  plan # NoPlan /\ RegularHours =>
    LET next == Openings(plan.asked)
        fits == next # {} /\ Min(next) \in (plan.at + LeadTime)..(plan.at + Day)
    IN plan.time = IF fits /\ ~ plan.full THEN Min(next) ELSE NoTime

PlanTypes ==
  /\ openHours \in Hours /\ localNow \in 0..MaxLocalTime /\ plans \in 0..MaxPlans
  /\ plan # NoPlan => plan.time = NoTime \/ plan.time \in Nat

PlanInv == PlanTypes /\ SlotsBegin /\ AnswerIsNext

(* Lemma: no slot and no plan at the start.                                *)
LEMMA PlanStart == PlanInit => PlanInv
  <1> SUFFICES ASSUME PlanInit PROVE PlanInv
    OBVIOUS
  <1>1. PlanTypes
    BY PlanAssumption DEF PlanInit, PlanTypes
  <1>2. SlotsBegin
    BY DEF PlanInit, SlotsBegin
  <1>3. AnswerIsNext
    BY DEF PlanInit, AnswerIsNext
  <1> QED
    BY <1>1, <1>2, <1>3 DEF PlanInv

(* Lemma: a seat is taken in the slot of a time.                           *)
LEMMA SeatIsReserved ==
  ASSUME PlanInv, NEW t \in Nat, ~ SlotFull(SlotStart(t)), ReserveSeat(SlotStart(t))
  PROVE  SlotsBegin'
  <1> DEFINE s == SlotStart(t)
             taken == IF s \in DOMAIN slots THEN slots[s].taken ELSE 0
  <1>1. s \in Nat /\ (s % Hour) % SlotLength = 0
    BY SlotOfTime
  <1>2. slots' = [q \in DOMAIN slots \cup {s} |->
                    IF q = s THEN [end |-> s + SlotLength, taken |-> taken + 1] ELSE slots[q]]
    BY DEF ReserveSeat
  <1>3. taken + 1 \in 0..SlotSeats
    <2>1. SlotSeats \in Nat \ {0}
      BY PlanAssumption
    <2>2. CASE s \in DOMAIN slots
      <3>1. slots[s].taken \in 0..SlotSeats
        BY <2>2 DEF PlanInv, SlotsBegin, Slot
      <3>2. ~ (slots[s].taken >= SlotSeats)
        BY <2>2 DEF SlotFull
      <3> QED
        BY <2>1, <2>2, <3>1, <3>2
    <2>3. CASE s \notin DOMAIN slots
      BY <2>1, <2>3
    <2> QED
      BY <2>2, <2>3
  <1> HIDE DEF s, taken
  <1>4. [end |-> s + SlotLength, taken |-> taken + 1] \in Slot
    BY <1>1, <1>3, PlanAssumption DEF Slot
  <1>5. ASSUME NEW q \in DOMAIN slots'
        PROVE  /\ q \in Nat /\ slots'[q] \in Slot /\ slots'[q].end = q + SlotLength
               /\ (q % Hour) % SlotLength = 0
    <2>1. CASE q = s
      <3>1. slots'[q] = [end |-> s + SlotLength, taken |-> taken + 1]
        BY <1>2, <2>1
      <3> QED
        BY <1>1, <1>4, <2>1, <3>1
    <2>2. CASE q # s
      <3>1. q \in DOMAIN slots /\ slots'[q] = slots[q]
        BY <1>2, <2>2
      <3> QED
        BY <3>1 DEF PlanInv, SlotsBegin
    <2> QED
      BY <2>1, <2>2
  <1> QED
    BY <1>5 DEF SlotsBegin

(* Lemma: a request gets the next opening, or is refused for a reason.     *)
LEMMA AnswersFit ==
  ASSUME PlanInv, NEW asked \in AskedTimes, AcceptPlan(asked) \/ RefusePlan(asked)
  PROVE  PlanInv'
  <1> DEFINE t == Aligned(asked)
  <1>1. /\ asked \in Nat /\ t \in Nat \cup {NoTime} /\ NoTime \notin Nat
        /\ LeadTime \in Nat /\ Day \in Nat /\ MaxPlans \in Nat
        /\ localNow \in Nat /\ openHours \in Hours /\ plans \in 0..MaxPlans
        /\ localNow \in 0..MaxLocalTime
    <2>1. asked \in Nat /\ openHours \in Hours
      BY PlanAssumption DEF PlanInv, PlanTypes
    <2>2. t \in Nat \cup {NoTime}
      BY <2>1, AlignedIsTime
    <2> QED
      BY <2>1, <2>2, PlanAssumption DEF PlanInv, PlanTypes
  <1>2. /\ plans' = plans + 1 /\ plans < MaxPlans
        /\ UNCHANGED <<openHours, localNow>>
    BY DEF AcceptPlan, RefusePlan
  <1>3. ASSUME RegularHours
        PROVE  /\ t = IF Openings(asked) = {} THEN NoTime ELSE Min(Openings(asked))
               /\ Openings(asked) # {} => Min(Openings(asked)) \in Nat
    BY <1>1, <1>3, AlignedIsNext
  <1>4. Plannable(t) <=> t # NoTime /\ localNow + LeadTime <= t /\ t <= localNow + Day
    BY DEF Plannable
  <1>5. \A a : Openings(a)' = Openings(a)
    BY <1>2 DEF Openings, OpenOn
  <1>6. RegularHours' <=> RegularHours
    BY <1>2 DEF RegularHours
  <1>7. ASSUME NEW time \in Nat \cup {NoTime}, NEW full \in BOOLEAN,
               PlanAnswered(asked, time, full),
               time = IF Plannable(t) /\ ~ full THEN t ELSE NoTime
        PROVE  PlanTypes' /\ AnswerIsNext'
    <2>1. plan' = [asked |-> asked, at |-> localNow, time |-> time, full |-> full]
      BY <1>7 DEF PlanAnswered
    <2>2. plan'.asked = asked /\ plan'.at = localNow /\ plan'.time = time /\ plan'.full = full
      BY <2>1
    <2>3. PlanTypes'
      BY <1>1, <1>2, <1>7, <2>2 DEF PlanTypes
    <2>4. ASSUME RegularHours
          PROVE  LET next == Openings(asked)
                     fits == next # {} /\ Min(next) \in (localNow + LeadTime)..(localNow + Day)
                 IN time = IF fits /\ ~ full THEN Min(next) ELSE NoTime
      <3> DEFINE next == Openings(asked)
                 least == Min(next)
      <3>1. t = (IF next = {} THEN NoTime ELSE least) /\ (next # {} => least \in Nat)
        BY <1>3, <2>4
      <3> HIDE DEF next, least, t
      <3>2. Plannable(t) <=>
              next # {} /\ least \in (localNow + LeadTime)..(localNow + Day)
        <4>1. CASE next = {}
          BY <1>4, <3>1, <4>1
        <4>2. CASE next # {}
          <5>1. t = least /\ least \in Nat /\ least # NoTime
            BY <1>1, <3>1, <4>2
          <5>2. localNow + LeadTime \in Nat /\ localNow + Day \in Nat
            BY <1>1
          <5>3. least \in (localNow + LeadTime)..(localNow + Day)
                  <=> localNow + LeadTime <= least /\ least <= localNow + Day
            BY <5>1, <5>2
          <5> QED
            BY <1>4, <4>2, <5>1, <5>3
        <4> QED
          BY <4>1, <4>2
      <3>3. time = IF (next # {} /\ least \in (localNow + LeadTime)..(localNow + Day)) /\ ~ full
                   THEN least ELSE NoTime
        BY <1>7, <3>1, <3>2
      <3> QED
        BY <3>3 DEF next, least
    <2>5. AnswerIsNext'
      BY <1>5, <1>6, <2>2, <2>4 DEF AnswerIsNext
    <2> QED
      BY <2>3, <2>5
  <1>8. CASE AcceptPlan(asked)
    <2>1. /\ Plannable(t) /\ ~ SlotFull(SlotStart(t)) /\ ReserveSeat(SlotStart(t))
          /\ PlanAnswered(asked, t, FALSE)
      BY <1>8 DEF AcceptPlan
    <2>2. t \in Nat
      BY <1>1, <1>4, <2>1
    <2> HIDE DEF t
    <2>3. SlotsBegin'
      BY <2>1, <2>2, SeatIsReserved
    <2>4. PlanTypes' /\ AnswerIsNext'
      BY <1>7, <2>1, <2>2
    <2> QED
      BY <2>3, <2>4 DEF PlanInv
  <1>9. CASE RefusePlan(asked)
    <2>1. PlanAnswered(asked, NoTime, Plannable(t)) /\ UNCHANGED slots
      BY <1>9 DEF RefusePlan
    <2>2. Plannable(t) \in BOOLEAN
      BY DEF Plannable
    <2> HIDE DEF t
    <2>3. SlotsBegin'
      BY <2>1 DEF PlanInv, SlotsBegin
    <2>4. PlanTypes' /\ AnswerIsNext'
      BY <1>7, <2>1, <2>2
    <2> QED
      BY <2>3, <2>4 DEF PlanInv
  <1> QED
    BY <1>8, <1>9

(* Lemma: an order gives its seat back.                                    *)
LEMMA SeatIsReleased ==
  ASSUME PlanInv, NEW s \in DOMAIN slots, ReleaseSeat(s) PROVE PlanInv'
  <1>1. /\ slots[s].taken > 0 /\ slots' = [slots EXCEPT ![s].taken = @ - 1]
        /\ UNCHANGED <<openHours, localNow, plan, plans>>
    BY DEF ReleaseSeat
  <1>2. slots[s] \in Slot /\ slots[s].end = s + SlotLength
    BY DEF PlanInv, SlotsBegin
  <1>3. [slots[s] EXCEPT !.taken = @ - 1] \in Slot
    BY <1>1, <1>2, PlanAssumption DEF Slot
  <1>4. \A q \in DOMAIN slots' : q \in DOMAIN slots /\
          slots'[q] = IF q = s THEN [slots[s] EXCEPT !.taken = @ - 1] ELSE slots[q]
    BY <1>1
  <1>5. [slots[s] EXCEPT !.taken = @ - 1].end = s + SlotLength
    BY <1>2 DEF Slot
  <1>6. SlotsBegin'
    BY <1>3, <1>4, <1>5 DEF PlanInv, SlotsBegin
  <1>7. PlanTypes' /\ AnswerIsNext'
    BY <1>1 DEF PlanInv, PlanTypes, AnswerIsNext, Openings, OpenOn, RegularHours
  <1> QED
    BY <1>6, <1>7 DEF PlanInv

(* Lemma: every step keeps the invariant.                                  *)
LEMMA PlanStep == PlanInv /\ [PlanNext]_planVars => PlanInv'
  <1> SUFFICES ASSUME PlanInv, [PlanNext]_planVars PROVE PlanInv'
    OBVIOUS
  <1>1. ASSUME UNCHANGED <<openHours, slots, plan, plans>>, localNow' \in 0..MaxLocalTime
        PROVE  PlanInv'
    BY <1>1 DEF PlanInv, PlanTypes, SlotsBegin, AnswerIsNext, Openings, OpenOn, RegularHours
  <1>2. CASE LocalTick
    <2>1. localNow' \in 0..MaxLocalTime
      BY <1>2, PlanAssumption DEF LocalTick, PlanInv, PlanTypes
    <2> QED
      BY <1>1, <1>2, <2>1 DEF LocalTick
  <1>3. CASE UNCHANGED planVars
    BY <1>1, <1>3 DEF planVars, PlanInv, PlanTypes
  <1> QED
    BY <1>2, <1>3, AnswersFit, SeatIsReleased DEF PlanNext

(* Slots have the length of the settings and no more seats taken than they *)
(* have, and an answer is a time or a refusal.                             *)
THEOREM PlanTypeCorrect == PlanSpec => []PlanTypeOK
  <1>1. PlanInv => PlanTypeOK
    <2> SUFFICES ASSUME PlanInv PROVE PlanTypeOK
      OBVIOUS
    <2>1. \A s \in DOMAIN slots : slots[s].end > s /\ slots[s].taken \in 0..SlotSeats
      BY PlanAssumption DEF PlanInv, SlotsBegin, Slot
    <2> QED
      BY <2>1 DEF PlanInv, PlanTypes, PlanTypeOK
  <1> QED
    BY <1>1, PlanStart, PlanStep, PTL DEF PlanSpec

(* The answer is the next opening of today or tomorrow, refused only when  *)
(* there is none, it is too near or too far or its slot is full, for hours *)
(* that code and comment read alike; slots that divide the hour never      *)
(* overlap.  AnswerIsNext, which is proved on the way, is what the code    *)
(* does with all hours whose ranges begin before they end.                 *)
THEOREM PlansFitAlways == PlanSpec => []PlansFit
  <1>1. PlanInv => PlansFit
    <2> SUFFICES ASSUME PlanInv PROVE PlansFit
      OBVIOUS
    <2>1. ASSUME Hour % SlotLength = 0, NEW s \in DOMAIN slots, NEW q \in DOMAIN slots,
                 s <= q, q < slots[s].end
          PROVE  s = q
      <3>1. SlotLength \in Nat \ {0}
        BY PlanAssumption
      <3>2. /\ s \in Nat /\ q \in Nat /\ slots[s].end = s + SlotLength
            /\ (s % Hour) % SlotLength = 0 /\ (q % Hour) % SlotLength = 0
        BY DEF PlanInv, SlotsBegin
      <3>3. PICK i \in Nat : s = i * SlotLength
        BY <2>1, <3>2, SlotsDivideTime
      <3>4. PICK j \in Nat : q = j * SlotLength
        BY <2>1, <3>2, SlotsDivideTime
      <3>5. i < j => s + SlotLength <= q
        BY <3>1, <3>2, <3>3, <3>4, OnePeriodMore
      <3>6. j < i => q + SlotLength <= s
        BY <3>1, <3>2, <3>3, <3>4, OnePeriodMore
      <3>7. ~ (i < j)
        BY <2>1, <3>1, <3>2, <3>5
      <3>8. ~ (j < i)
        BY <2>1, <3>1, <3>2, <3>6
      <3>9. i = j
        BY <3>7, <3>8
      <3> QED
        BY <3>3, <3>4, <3>9
    <2>2. plan # NoPlan /\ RegularHours /\ OneReading(plan.asked) => AnswerIsNext
      BY DEF PlanInv
    <2> QED
      BY <2>1, <2>2 DEF AnswerIsNext, PlansFit
  <1> QED
    BY <1>1, PlanStart, PlanStep, PTL DEF PlanSpec

-----------------------------------------------------------------------------
(* Addresses: a request that runs alone repairs the default, for any       *)
(* number of requests and addresses and whatever overlapping requests have *)
(* left behind.                                                            *)

RowState == {"none", "plain", "default"}

\* The rows that a request has written.
WrittenRows == UNION {[D -> RowState] : D \in SUBSET AddressId}

RequestState ==
  [at : {"idle", "unset", "flush", "write", "check", "promote", "commit"},
   op : {"none", "create", "update", "delete"}, id : 0..MaxAddresses, asked : BOOLEAN,
   loaded : RowState, toUnset : SUBSET AddressId, alone : BOOLEAN, written : WrittenRows]

\* What a request with the writes of q sees of the rows t.
Overlay(t, q) == [a \in AddressId |-> IF a \in DOMAIN q.written THEN q.written[a] ELSE t[a]]

AddressTypes ==
  /\ address \in [AddressId -> RowState]
  /\ nextId \in 1..(MaxAddresses + 1)
  /\ request \in [AddressRequest -> RequestState]

\* The rows that a request deals with.
Dealt(q) == DOMAIN q.written \cup q.toUnset \cup {q.id}

\* The addresses that the sequence has given out are the ones that are known.
IdsAreGivenOut ==
  /\ \A a \in AddressId : address[a] # "none" => a < nextId
  /\ \A r \in AddressRequest : \A a \in Dealt(request[r]) : a < nextId

RequestsAreSound ==
  \A r \in AddressRequest :
    IF request[r].at = "idle" THEN request[r] = IdleRequest
    ELSE /\ request[r].id \in AddressId /\ request[r].op # "none"
         /\ request[r].at = "check" => request[r].id \in DOMAIN request[r].written

RowsOfOne ==
  \A r \in AddressRequest, q \in AddressRequest :
    r # q => DOMAIN request[r].written \cap DOMAIN request[q].written = {}

\* A request has still to insert its row, which nobody else has seen.
Unborn(q) == q.op = "create" /\ q.at \in {"unset", "flush", "write"}

NewRowsUnseen ==
  \A r \in AddressRequest : Unborn(request[r]) =>
    /\ address[request[r].id] = "none"
    /\ \A q \in AddressRequest \ {r} : request[r].id \notin Dealt(request[q])

\* What the rows v that a request leaves owe to the rows t that it found.
Repaired(t, v, q) ==
  /\ q.asked => \E a \in AddressId : DefaultsOf(v) = {a}
  /\ (\A a, b \in DefaultsOf(t) : a = b) => (\A a, b \in DefaultsOf(v) : a = b)
  /\ q.op # "update" /\ DefaultsOf(t) # {} =>
       DefaultsOf(v) # {} \/ \A a \in AddressId : v[a] = "none"

\* How far a request that runs alone has come: with the defaults unset, what is left of them
\* is to be unset; without, the rows are as they were until its one write.
OnTheWay(t, q) ==
  LET v == Overlay(t, q) IN
  /\ q.at = "unset" =>
       /\ q.asked /\ v = t /\ q.op \in {"create", "update"}
       /\ q.op = "update" => q.loaded = t[q.id] /\ q.loaded # "none"
  /\ q.at = "flush" =>
       /\ q.asked /\ DefaultsOf(v) = q.toUnset /\ q.op \in {"create", "update"}
       /\ q.op = "update" => q.loaded = "plain" /\ v[q.id] # "none"
  /\ q.at = "write" /\ q.asked =>
       /\ DefaultsOf(v) = {} /\ q.op \in {"create", "update"}
       /\ q.op = "update" => q.loaded = "plain" /\ v[q.id] # "none"
  /\ q.at = "write" /\ ~ q.asked =>
       /\ v = t
       /\ q.op # "create" => q.loaded = t[q.id] /\ q.loaded # "none"
  /\ q.at = "check" => ~ q.asked /\ DefaultsOf(v) = DefaultsOf(t)
  /\ q.at = "promote" =>
       /\ ~ q.asked /\ v[q.id] = q.loaded /\ q.loaded # "none"
       /\ \E a \in DefaultsOf(t) : DefaultsOf(v) = DefaultsOf(t) \ {a}
  /\ q.at = "commit" => Repaired(t, v, q)

AloneIsOnTheWay ==
  \A r \in AddressRequest : request[r].alone =>
    /\ \A q \in AddressRequest \ {r} : request[q].at = "idle"
    /\ OnTheWay(address, request[r])

AddressInv ==
  /\ AddressTypes /\ IdsAreGivenOut /\ RequestsAreSound /\ RowsOfOne /\ NewRowsUnseen
  /\ AloneIsOnTheWay

(* Lemma: what a request sees are rows.                                    *)
LEMMA OverlayIsRows ==
  ASSUME NEW t \in [AddressId -> RowState], NEW q \in RequestState
  PROVE  /\ Overlay(t, q) \in [AddressId -> RowState]
         /\ DOMAIN q.written \subseteq AddressId
         /\ \A a \in AddressId : a \in DOMAIN q.written \/ Overlay(t, q)[a] = t[a]
         /\ DOMAIN q.written = {} => Overlay(t, q) = t
  <1>1. q.written \in WrittenRows
    BY DEF RequestState
  <1>2. PICK D \in SUBSET AddressId : q.written \in [D -> RowState]
    BY <1>1 DEF WrittenRows
  <1> QED
    BY <1>2 DEF Overlay

(* Lemma: writing a row.                                                   *)
LEMMA WroteIs ==
  ASSUME NEW q \in RequestState, NEW row \in AddressId, NEW v \in RowState,
         NEW next \in {"check", "promote", "commit"}, NEW t \in [AddressId -> RowState],
         NEW p, p = Wrote(q, row, v, next)
  PROVE  /\ p \in RequestState
         /\ p.at = next /\ p.op = q.op /\ p.id = q.id /\ p.asked = q.asked
         /\ p.loaded = q.loaded /\ p.toUnset = q.toUnset /\ p.alone = q.alone
         /\ DOMAIN p.written = DOMAIN q.written \cup {row}
         /\ Overlay(t, p) \in [AddressId -> RowState]
         /\ \A b \in AddressId : Overlay(t, p)[b] = IF b = row THEN v ELSE Overlay(t, q)[b]
  <1> DEFINE w == [b \in DOMAIN q.written \cup {row} |-> IF b = row THEN v ELSE q.written[b]]
  <1>1. q.written \in WrittenRows
    BY DEF RequestState
  <1>2. PICK D \in SUBSET AddressId : q.written \in [D -> RowState]
    BY <1>1 DEF WrittenRows
  <1>3. w \in [D \cup {row} -> RowState] /\ D \cup {row} \in SUBSET AddressId
    BY <1>2
  <1>4. w \in WrittenRows
    BY <1>3 DEF WrittenRows
  <1>5. DOMAIN w = DOMAIN q.written \cup {row}
        /\ \A b \in DOMAIN w : w[b] = IF b = row THEN v ELSE q.written[b]
    OBVIOUS
  <1>6. p = [q EXCEPT !.at = next, !.written = w]
    BY DEF Wrote
  <1> HIDE DEF w
  <1>7. /\ p \in RequestState
        /\ p.at = next /\ p.op = q.op /\ p.id = q.id /\ p.asked = q.asked
        /\ p.loaded = q.loaded /\ p.toUnset = q.toUnset /\ p.alone = q.alone
        /\ p.written = w
    BY <1>4, <1>6 DEF RequestState
  <1>8. \A b \in AddressId : Overlay(t, p)[b] = IF b = row THEN v ELSE Overlay(t, q)[b]
    BY <1>5, <1>7 DEF Overlay
  <1>9. Overlay(t, p) \in [AddressId -> RowState]
    BY <1>7, OverlayIsRows
  <1> QED
    BY <1>5, <1>7, <1>8, <1>9

(* Lemma: the defaults after a row has been written.                       *)
LEMMA DefaultsAfter ==
  ASSUME NEW t \in [AddressId -> RowState], NEW a \in AddressId, NEW v \in RowState
  PROVE  DefaultsOf([t EXCEPT ![a] = v]) =
           IF v = "default" THEN DefaultsOf(t) \cup {a} ELSE DefaultsOf(t) \ {a}
  BY DEF DefaultsOf

(* Lemma: no request at the start.                                         *)
LEMMA IdleIs ==
  /\ IdleRequest \in RequestState /\ DOMAIN IdleRequest.written = {}
  /\ IdleRequest.toUnset = {} /\ IdleRequest.id = 0 /\ IdleRequest.at = "idle"
  /\ IdleRequest.op = "none" /\ ~ IdleRequest.alone /\ Dealt(IdleRequest) = {0}
  <1> DEFINE w == [a \in {} |-> "none"]
  <1>1. w \in [{} -> RowState] /\ {} \in SUBSET AddressId /\ DOMAIN w = {}
    OBVIOUS
  <1>2. w \in WrittenRows
    BY <1>1 DEF WrittenRows
  <1> HIDE DEF w
  <1>3. IdleRequest = [at |-> "idle", op |-> "none", id |-> 0, asked |-> FALSE,
                       loaded |-> "none", toUnset |-> {}, alone |-> FALSE, written |-> w]
    BY DEF IdleRequest, w
  <1>4. IdleRequest \in RequestState
    BY <1>2, <1>3, AddressAssumption DEF RequestState, RowState
  <1>5. IdleRequest.written = w
    BY <1>3
  <1>6. /\ IdleRequest.toUnset = {} /\ IdleRequest.id = 0 /\ IdleRequest.at = "idle"
        /\ IdleRequest.op = "none" /\ ~ IdleRequest.alone
    BY <1>3
  <1>7. Dealt(IdleRequest) = {0}
    BY <1>1, <1>5, <1>6 DEF Dealt
  <1> QED
    BY <1>1, <1>4, <1>5, <1>6, <1>7

LEMMA AddressStart == AddressInit => AddressInv
  <1> SUFFICES ASSUME AddressInit PROVE AddressInv
    OBVIOUS
  <1>1. /\ \A r \in AddressRequest : request[r] = IdleRequest
        /\ \A a \in AddressId : address[a] = "none"
    BY DEF AddressInit
  <1>2. AddressTypes
    BY IdleIs, AddressAssumption DEF AddressInit, AddressTypes, RowState
  <1>3. IdsAreGivenOut /\ RequestsAreSound /\ RowsOfOne /\ NewRowsUnseen /\ AloneIsOnTheWay
    BY <1>1, IdleIs DEF AddressInit, IdsAreGivenOut, RequestsAreSound, RowsOfOne, NewRowsUnseen,
                        Unborn, AloneIsOnTheWay
  <1> QED
    BY <1>2, <1>3 DEF AddressInv

(* Lemma: a statement of a request keeps the invariant if the rows that it *)
(* deals with next are ones that it knew or saw, free of the writes of     *)
(* others.                                                                 *)
LEMMA StatementKeeps ==
  ASSUME AddressInv, NEW r \in AddressRequest, NEW p \in RequestState,
         request[r].at # "idle", p.at # "idle",
         request' = [request EXCEPT ![r] = p], UNCHANGED <<address, nextId>>,
         p.id \in AddressId, p.op = request[r].op, p.alone = request[r].alone,
         p.at = "check" => p.id \in DOMAIN p.written,
         \A a \in Dealt(p) : a \in Dealt(request[r]) \/ View(r)[a] # "none",
         Dealt(p) \subseteq AddressId,
         \A a \in DOMAIN p.written : a \in DOMAIN request[r].written \/ RowFree(r, a),
         Unborn(p) => Unborn(request[r]) /\ p.id = request[r].id,
         p.alone => OnTheWay(address, p)
  PROVE  AddressInv'
  <1>1. /\ request[r] \in RequestState /\ address \in [AddressId -> RowState]
        /\ View(r) = Overlay(address, request[r])
    BY DEF AddressInv, AddressTypes, View, Overlay
  <1>2. \A q \in AddressRequest : request'[q] = IF q = r THEN p ELSE request[q]
    BY DEF AddressInv, AddressTypes
  <1>3. AddressTypes'
    BY DEF AddressInv, AddressTypes
  <1>4. \A a \in Dealt(p) : a \in Dealt(request[r]) \/ address[a] # "none"
    BY <1>1, OverlayIsRows DEF Dealt
  <1>5. IdsAreGivenOut'
    BY <1>2, <1>4 DEF AddressInv, IdsAreGivenOut
  <1>6. RequestsAreSound'
    BY <1>2 DEF AddressInv, RequestsAreSound
  <1>7. \A q \in AddressRequest \ {r} : DOMAIN p.written \cap DOMAIN request[q].written = {}
    BY DEF AddressInv, RowsOfOne, RowFree
  <1>8. RowsOfOne'
    BY <1>2, <1>7 DEF AddressInv, RowsOfOne
  <1>9. NewRowsUnseen'
    <2> SUFFICES ASSUME NEW o \in AddressRequest, Unborn(request'[o])
                 PROVE  /\ address[request'[o].id] = "none"
                        /\ \A q \in AddressRequest \ {o} : request'[o].id \notin Dealt(request'[q])
      BY DEF NewRowsUnseen
    <2>1. Unborn(request[o]) /\ request'[o].id = request[o].id
      BY <1>2
    <2>2. /\ address[request[o].id] = "none"
          /\ \A q \in AddressRequest \ {o} : request[o].id \notin Dealt(request[q])
      BY <2>1 DEF AddressInv, NewRowsUnseen
    <2>3. ASSUME NEW q \in AddressRequest \ {o} PROVE request[o].id \notin Dealt(request'[q])
      BY <1>2, <1>4, <2>2
    <2> QED
      BY <2>1, <2>2, <2>3
  <1>10. AloneIsOnTheWay'
    BY <1>2 DEF AddressInv, AloneIsOnTheWay
  <1> QED
    BY <1>3, <1>5, <1>6, <1>8, <1>9, <1>10 DEF AddressInv

(* Lemma: a request that fails leaves nothing.                             *)
LEMMA FailureKeeps ==
  ASSUME AddressInv, NEW r \in AddressRequest, request' = [request EXCEPT ![r] = IdleRequest],
         UNCHANGED <<address, nextId>>
  PROVE  AddressInv'
  <1>1. \A q \in AddressRequest : request'[q] = IF q = r THEN IdleRequest ELSE request[q]
    BY DEF AddressInv, AddressTypes
  <1>2. AddressTypes'
    BY IdleIs DEF AddressInv, AddressTypes
  <1>3. IdsAreGivenOut'
    BY <1>1, IdleIs DEF AddressInv, IdsAreGivenOut, AddressTypes
  <1>4. RequestsAreSound' /\ RowsOfOne'
    BY <1>1, IdleIs DEF AddressInv, RequestsAreSound, RowsOfOne
  <1>5. NewRowsUnseen'
    <2> SUFFICES ASSUME NEW o \in AddressRequest, Unborn(request'[o])
                 PROVE  /\ address[request'[o].id] = "none"
                        /\ \A q \in AddressRequest \ {o} : request'[o].id \notin Dealt(request'[q])
      BY DEF NewRowsUnseen
    <2>1. o # r /\ request'[o] = request[o]
      BY <1>1, IdleIs DEF Unborn
    <2>2. request[o].id \in AddressId /\ request[o].id # 0
      BY <2>1 DEF AddressInv, RequestsAreSound, Unborn, AddressId
    <2> QED
      BY <1>1, <2>1, <2>2, IdleIs DEF AddressInv, NewRowsUnseen
  <1>6. AloneIsOnTheWay'
    BY <1>1, IdleIs DEF AddressInv, AloneIsOnTheWay
  <1> QED
    BY <1>2, <1>3, <1>4, <1>5, <1>6 DEF AddressInv

(* Lemma: a request begins, alone if no other is under way.                *)
LEMMA BeginKeeps ==
  ASSUME AddressInv, NEW r \in AddressRequest, NEW p \in RequestState,
         request[r].at = "idle", Begin(r, p), UNCHANGED address,
         p.at \in {"unset", "write"}, p.op \in {"create", "update", "delete"},
         DOMAIN p.written = {}, p.toUnset = {}, p.id \in AddressId,
         nextId' \in 1..(MaxAddresses + 1), nextId <= nextId', p.id < nextId',
         p.op = "create" => p.id = nextId,
         p.op # "create" => address[p.id] # "none" /\ p.loaded = address[p.id],
         p.op = "delete" => ~ p.asked,
         p.at = "unset" <=> p.asked
  PROVE  AddressInv'
  <1> DEFINE alone == \A o \in AddressRequest \ {r} : request[o].at = "idle"
             f == [p EXCEPT !.alone = alone]
  <1>1. /\ f \in RequestState /\ f.at = p.at /\ f.op = p.op /\ f.id = p.id
        /\ f.asked = p.asked /\ f.loaded = p.loaded /\ f.toUnset = {}
        /\ DOMAIN f.written = {} /\ f.alone = alone /\ Dealt(f) = {p.id}
    <2>1. alone \in BOOLEAN
      OBVIOUS
    <2> HIDE DEF alone
    <2>2. f = [p EXCEPT !.alone = alone]
      OBVIOUS
    <2> HIDE DEF f
    <2>3. /\ f \in RequestState /\ f.at = p.at /\ f.op = p.op /\ f.id = p.id
          /\ f.asked = p.asked /\ f.loaded = p.loaded /\ f.toUnset = p.toUnset
          /\ f.written = p.written
      BY <2>1, <2>2 DEF RequestState
    <2>4. f.alone = alone
      BY <2>2 DEF RequestState
    <2> QED
      BY <2>3, <2>4 DEF Dealt
  <1>2. \A o \in AddressRequest :
          request'[o] = IF o = r THEN f ELSE [request[o] EXCEPT !.alone = FALSE]
    BY DEF Begin
  <1>3. ASSUME NEW o \in AddressRequest \ {r}
        PROVE  /\ request'[o] \in RequestState /\ ~ request'[o].alone
               /\ request'[o].at = request[o].at /\ request'[o].op = request[o].op
               /\ request'[o].id = request[o].id
               /\ request'[o].written = request[o].written
               /\ Dealt(request'[o]) = Dealt(request[o])
               /\ request[o].at = "idle" => request'[o] = IdleRequest
    <2>1. request'[o] = [request[o] EXCEPT !.alone = FALSE] /\ request[o] \in RequestState
      BY <1>2 DEF AddressInv, AddressTypes
    <2>2. /\ request'[o] \in RequestState /\ request'[o].alone = FALSE
          /\ request'[o].at = request[o].at /\ request'[o].op = request[o].op
          /\ request'[o].id = request[o].id /\ request'[o].toUnset = request[o].toUnset
          /\ request'[o].written = request[o].written
      BY <2>1 DEF RequestState
    <2>3. request[o].at = "idle" => request[o] = IdleRequest
      BY DEF AddressInv, RequestsAreSound
    <2>4. [IdleRequest EXCEPT !.alone = FALSE] = IdleRequest
      BY IdleIs DEF RequestState
    <2> QED
      BY <2>1, <2>2, <2>3, <2>4 DEF Dealt
  <1> HIDE DEF f, alone
  <1>4. AddressTypes'
    <2>1. request' = [o \in AddressRequest |-> request'[o]]
      BY DEF Begin
    <2>2. \A o \in AddressRequest : request'[o] \in RequestState
      BY <1>1, <1>2, <1>3
    <2>3. request' \in [AddressRequest -> RequestState]
      BY <2>1, <2>2
    <2> QED
      BY <2>3 DEF AddressInv, AddressTypes
  <1>5. IdsAreGivenOut'
    <2>1. nextId \in Nat /\ nextId' \in Nat /\ AddressId \subseteq Nat
      BY AddressAssumption DEF AddressInv, AddressTypes, AddressId
    <2>2. ASSUME NEW a \in AddressId, address'[a] # "none" PROVE a < nextId'
      BY <2>1, <2>2 DEF AddressInv, IdsAreGivenOut
    <2>3. ASSUME NEW o \in AddressRequest, NEW a \in Dealt(request'[o]) PROVE a < nextId'
      <3>1. CASE o = r
        BY <1>1, <1>2, <2>3, <3>1
      <3>2. CASE o # r
        <4>1. a \in Dealt(request[o])
          BY <1>3, <2>3, <3>2
        <4>2. a < nextId
          BY <4>1 DEF AddressInv, IdsAreGivenOut
        <4>3. a \in Nat
          <5>1. request[o] \in RequestState
            BY DEF AddressInv, AddressTypes
          <5>2. DOMAIN request[o].written \subseteq AddressId
            BY <5>1, OverlayIsRows DEF AddressInv, AddressTypes
          <5>3. request[o].toUnset \subseteq AddressId /\ request[o].id \in 0..MaxAddresses
            BY <5>1 DEF RequestState
          <5>4. a \in AddressId \/ a \in 0..MaxAddresses
            BY <4>1, <5>2, <5>3 DEF Dealt
          <5>5. 0..MaxAddresses \subseteq Nat
            BY AddressAssumption
          <5> QED
            BY <2>1, <5>4, <5>5
        <4> QED
          BY <2>1, <4>2, <4>3
      <3> QED
        BY <3>1, <3>2
    <2> QED
      BY <2>2, <2>3 DEF IdsAreGivenOut
  <1>6. RequestsAreSound'
    BY <1>1, <1>2, <1>3 DEF AddressInv, RequestsAreSound
  <1>7. RowsOfOne'
    BY <1>1, <1>2, <1>3 DEF AddressInv, RowsOfOne
  <1>8. NewRowsUnseen'
    <2> SUFFICES ASSUME NEW o \in AddressRequest, Unborn(request'[o])
                 PROVE  /\ address'[request'[o].id] = "none"
                        /\ \A q \in AddressRequest \ {o} : request'[o].id \notin Dealt(request'[q])
      BY DEF NewRowsUnseen
    <2>0. nextId \in Nat
      BY AddressAssumption DEF AddressInv, AddressTypes
    <2>1. CASE o = r
      <3>1. request'[o].id = nextId /\ nextId \in AddressId
        BY <1>1, <1>2, <2>1 DEF Unborn
      <3>2. address[nextId] = "none"
        BY <2>0, <3>1 DEF AddressInv, IdsAreGivenOut, AddressTypes
      <3>3. \A q \in AddressRequest : nextId \notin Dealt(request[q])
        BY <2>0 DEF AddressInv, IdsAreGivenOut
      <3> QED
        BY <1>3, <2>1, <3>1, <3>2, <3>3
    <2>2. CASE o # r
      <3>1. Unborn(request[o]) /\ request'[o].id = request[o].id
        BY <1>3, <2>2 DEF Unborn
      <3>2. /\ address[request[o].id] = "none"
            /\ \A q \in AddressRequest \ {o} : request[o].id \notin Dealt(request[q])
        BY <3>1 DEF AddressInv, NewRowsUnseen
      <3>3. request[o].id \in Dealt(request[o])
        BY DEF Dealt
      <3>4. request[o].id < nextId
        BY <3>3 DEF AddressInv, IdsAreGivenOut
      <3>5. request[o].id # p.id
        <4>1. CASE p.op = "create"
          BY <2>0, <3>4, <4>1
        <4>2. CASE p.op # "create"
          BY <3>2, <4>2
        <4> QED
          BY <4>1, <4>2
      <3> QED
        BY <1>1, <1>2, <1>3, <2>2, <3>1, <3>2, <3>5
    <2> QED
      BY <2>1, <2>2
  <1>9. AloneIsOnTheWay'
    <2> SUFFICES ASSUME NEW o \in AddressRequest, request'[o].alone
                 PROVE  /\ \A q \in AddressRequest \ {o} : request'[q].at = "idle"
                        /\ OnTheWay(address', request'[o])
      BY DEF AloneIsOnTheWay
    <2>1. o = r /\ request'[o] = f /\ alone
      BY <1>1, <1>2, <1>3
    <2>2. \A q \in AddressRequest \ {o} : request'[q].at = "idle"
      BY <1>3, <2>1 DEF alone
    <2>3. Overlay(address, f) = address
      BY <1>1, OverlayIsRows DEF AddressInv, AddressTypes
    <2>4. OnTheWay(address, f)
      BY <1>1, <2>3 DEF OnTheWay
    <2> QED
      BY <2>1, <2>2, <2>4
  <1> QED
    BY <1>4, <1>5, <1>6, <1>7, <1>8, <1>9 DEF AddressInv

(* Lemma: the three requests begin so.                                     *)
LEMMA RequestsBegin ==
  ASSUME AddressInv, NEW r \in AddressRequest,
         \/ \E asked \in BOOLEAN : \/ CreateAddress(r, asked)
                                   \/ \E a \in AddressId : UpdateAddress(r, a, asked)
         \/ \E a \in AddressId : DeleteAddress(r, a)
  PROVE  AddressInv'
  <1>1. /\ nextId \in 1..(MaxAddresses + 1) /\ MaxAddresses \in Nat
        /\ \A a \in AddressId : address[a] \in RowState /\ a \in 1..MaxAddresses
        /\ \A a \in AddressId : address[a] # "none" => a < nextId
    BY AddressAssumption DEF AddressInv, AddressTypes, AddressId, IdsAreGivenOut
  <1>2. CASE \E asked \in BOOLEAN : CreateAddress(r, asked)
    <2>1. PICK asked \in BOOLEAN : CreateAddress(r, asked)
      BY <1>2
    <2> DEFINE p == [IdleRequest EXCEPT !.at = IF asked THEN "unset" ELSE "write", !.op = "create",
                                        !.id = nextId, !.asked = asked]
    <2>2. /\ request[r].at = "idle" /\ nextId <= MaxAddresses /\ Begin(r, p)
          /\ nextId' = nextId + 1 /\ UNCHANGED address
      BY <2>1 DEF CreateAddress
    <2>3. nextId \in 0..MaxAddresses /\ nextId \in AddressId
      BY <1>1, <2>2 DEF AddressId
    <2>4. /\ p \in RequestState /\ p.written = IdleRequest.written /\ p.toUnset = {}
          /\ p.at = (IF asked THEN "unset" ELSE "write") /\ p.op = "create" /\ p.id = nextId
          /\ p.asked = asked
      BY <2>3, IdleIs DEF RequestState
    <2> HIDE DEF p
    <2>5. nextId' \in 1..(MaxAddresses + 1) /\ nextId <= nextId' /\ nextId < nextId'
      BY <1>1, <2>2
    <2> QED
      BY <2>2, <2>3, <2>4, <2>5, IdleIs, BeginKeeps
  <1>3. CASE \E asked \in BOOLEAN, a \in AddressId : UpdateAddress(r, a, asked)
    <2>1. PICK asked \in BOOLEAN, a \in AddressId : UpdateAddress(r, a, asked)
      BY <1>3
    <2> DEFINE p == [IdleRequest EXCEPT !.at = IF asked THEN "unset" ELSE "write", !.op = "update",
                                        !.id = a, !.asked = asked, !.loaded = address[a]]
    <2>2. /\ request[r].at = "idle" /\ address[a] # "none" /\ Begin(r, p)
          /\ UNCHANGED <<address, nextId>>
      BY <2>1 DEF UpdateAddress
    <2>3. a \in 0..MaxAddresses /\ address[a] \in RowState
      BY <1>1
    <2>4. /\ p \in RequestState /\ p.written = IdleRequest.written /\ p.toUnset = {}
          /\ p.at = (IF asked THEN "unset" ELSE "write") /\ p.op = "update" /\ p.id = a
          /\ p.asked = asked /\ p.loaded = address[a]
      BY <2>3, IdleIs DEF RequestState
    <2> HIDE DEF p
    <2>5. nextId' \in 1..(MaxAddresses + 1) /\ nextId <= nextId' /\ a < nextId'
      BY <1>1, <2>2
    <2> QED
      BY <2>2, <2>3, <2>4, <2>5, IdleIs, BeginKeeps
  <1>4. CASE \E a \in AddressId : DeleteAddress(r, a)
    <2>1. PICK a \in AddressId : DeleteAddress(r, a)
      BY <1>4
    <2> DEFINE p == [IdleRequest EXCEPT !.at = "write", !.op = "delete", !.id = a,
                                        !.loaded = address[a]]
    <2>2. /\ request[r].at = "idle" /\ address[a] # "none" /\ Begin(r, p)
          /\ UNCHANGED <<address, nextId>>
      BY <2>1 DEF DeleteAddress
    <2>3. a \in 0..MaxAddresses /\ address[a] \in RowState
      BY <1>1
    <2>4. /\ p \in RequestState /\ p.written = IdleRequest.written /\ p.toUnset = {}
          /\ p.at = "write" /\ p.op = "delete" /\ p.id = a
          /\ p.asked = IdleRequest.asked /\ p.loaded = address[a]
      BY <2>3, IdleIs DEF RequestState
    <2>5. ~ IdleRequest.asked
      BY DEF IdleRequest
    <2> HIDE DEF p
    <2>6. nextId' \in 1..(MaxAddresses + 1) /\ nextId <= nextId' /\ a < nextId'
      BY <1>1, <2>2
    <2> QED
      BY <2>2, <2>3, <2>4, <2>5, <2>6, IdleIs, BeginKeeps
  <1> QED
    BY <1>2, <1>3, <1>4

(* Lemma: what a statement may take for granted of its request.            *)
LEMMA RequestIs ==
  ASSUME AddressInv, NEW r \in AddressRequest, request[r].at # "idle"
  PROVE  /\ request[r] \in RequestState /\ address \in [AddressId -> RowState]
         /\ View(r) = Overlay(address, request[r]) /\ View(r) \in [AddressId -> RowState]
         /\ request[r].id \in AddressId /\ Dealt(request[r]) \subseteq AddressId
         /\ request[r].op # "none"
         /\ request[r].at = "check" => request[r].id \in DOMAIN request[r].written
         /\ request[r].alone => OnTheWay(address, request[r])
         /\ Unborn(request[r]) => address[request[r].id] = "none" /\ RowFree(r, request[r].id)
  <1>1. request[r] \in RequestState /\ address \in [AddressId -> RowState]
    BY DEF AddressInv, AddressTypes
  <1>2. View(r) = Overlay(address, request[r])
    BY DEF View, Overlay
  <1>3. /\ Overlay(address, request[r]) \in [AddressId -> RowState]
        /\ DOMAIN request[r].written \subseteq AddressId
    BY <1>1, OverlayIsRows
  <1>4. /\ request[r].id \in AddressId /\ request[r].op # "none"
        /\ request[r].at = "check" => request[r].id \in DOMAIN request[r].written
    BY DEF AddressInv, RequestsAreSound
  <1>5. Dealt(request[r]) \subseteq AddressId
    BY <1>1, <1>3, <1>4 DEF Dealt, RequestState
  <1>6. Unborn(request[r]) => address[request[r].id] = "none" /\ RowFree(r, request[r].id)
    BY DEF AddressInv, NewRowsUnseen, RowFree, Dealt
  <1>7. request[r].alone => OnTheWay(address, request[r])
    BY DEF AddressInv, AloneIsOnTheWay
  <1> QED
    BY <1>1, <1>2, <1>3, <1>4, <1>5, <1>6, <1>7

(* Lemma: a default is a row that is there.                                *)
LEMMA DefaultsAreThere ==
  ASSUME NEW t \in [AddressId -> RowState]
  PROVE  /\ DefaultsOf(t) \subseteq AddressId
         /\ \A a \in DefaultsOf(t) : t[a] = "default"
         /\ \A a \in AddressId : a \notin DefaultsOf(t) => t[a] # "default"
  BY DEF DefaultsOf

(* Lemma: the defaults are found and unset, one after the other.           *)
LEMMA UnsetSteps ==
  ASSUME AddressInv, NEW r \in AddressRequest, UnsetDefault(r) \/ FlushUnset(r) \/ FlushDone(r)
  PROVE  AddressInv'
  <1> DEFINE q == request[r]
             t == View(r)
  <1>1. /\ q.at # "idle"
        /\ UNCHANGED <<address, nextId>>
    BY DEF UnsetDefault, FlushUnset, FlushDone
  <1>2. /\ q \in RequestState /\ address \in [AddressId -> RowState]
        /\ t = Overlay(address, q) /\ t \in [AddressId -> RowState]
        /\ q.id \in AddressId /\ Dealt(q) \subseteq AddressId
        /\ q.op # "none"
        /\ q.alone => OnTheWay(address, q)
        /\ Unborn(q) => address[q.id] = "none" /\ RowFree(r, q.id)
    BY <1>1, RequestIs
  <1>3. CASE UnsetDefault(r)
    <2> DEFINE found == DefaultsOf(t)
               loaded == IF q.id \in found THEN "plain" ELSE q.loaded
               p == [q EXCEPT !.at = "flush", !.toUnset = found, !.loaded = loaded]
    <2>1. q.at = "unset" /\ request' = [request EXCEPT ![r] = p]
      BY <1>3 DEF UnsetDefault, AddressInv, AddressTypes
    <2>2. found \subseteq AddressId /\ loaded \in RowState
      BY <1>2, DefaultsAreThere DEF RequestState, RowState
    <2> HIDE DEF found, loaded, q, t
    <2>3. /\ p \in RequestState /\ p.at = "flush" /\ p.op = q.op /\ p.id = q.id
          /\ p.asked = q.asked /\ p.loaded = loaded /\ p.toUnset = found
          /\ p.alone = q.alone /\ p.written = q.written
      BY <1>2, <2>2 DEF RequestState
    <2> HIDE DEF p
    <2>4. \A a \in found : t[a] = "default"
      BY <1>2, DefaultsAreThere DEF found
    <2>5. \A a \in Dealt(p) : a \in Dealt(q) \/ t[a] # "none"
      BY <2>3, <2>4 DEF Dealt
    <2>6. Dealt(p) \subseteq AddressId
      BY <1>2, <2>2, <2>3 DEF Dealt
    <2>7. Unborn(p) => Unborn(q) /\ p.id = q.id
      BY <2>1, <2>3 DEF Unborn
    <2>8. p.alone => OnTheWay(address, p)
      <3> SUFFICES ASSUME q.alone PROVE OnTheWay(address, p)
        BY <2>3
      <3>1. /\ q.asked /\ t = address /\ q.op \in {"create", "update"}
            /\ q.op = "update" => q.loaded = address[q.id] /\ q.loaded # "none"
        BY <1>2, <2>1 DEF OnTheWay
      <3>2. Overlay(address, p) = t
        BY <1>2, <2>3 DEF Overlay
      <3>3. q.op = "update" => loaded = "plain"
        <4>1. q.id \in found <=> t[q.id] = "default"
          BY <1>2 DEF found, DefaultsOf
        <4>2. t[q.id] \in RowState
          BY <1>2
        <4> QED
          BY <3>1, <4>1, <4>2 DEF loaded, RowState
      <3> QED
        BY <2>3, <3>1, <3>2, <3>3 DEF OnTheWay, found
    <2>9. /\ request[r].at # "idle" /\ p.at # "idle" /\ p.id \in AddressId
          /\ p.at # "check" /\ DOMAIN p.written = DOMAIN q.written
      BY <1>1, <1>2, <2>3 DEF q
    <2> QED
      BY <1>1, <2>1, <2>3, <2>5, <2>6, <2>7, <2>8, <2>9, StatementKeeps DEF q, t
  <1>4. CASE FlushUnset(r)
    <2> DEFINE a == Min(q.toUnset)
    <2>1. /\ q.at = "flush" /\ q.toUnset # {} /\ RowFree(r, a)
          /\ request' = IF t[a] = "none" THEN [request EXCEPT ![r] = IdleRequest]
                        ELSE [request EXCEPT ![r].toUnset = @ \ {a},
                                        ![r].written = [b \in DOMAIN @ \cup {a} |->
                                            IF b = a THEN "plain" ELSE @[b]]]
      BY <1>4 DEF FlushUnset
    <2>2. a \in q.toUnset /\ a \in AddressId /\ q.toUnset \subseteq AddressId
      <3>1. q.toUnset \subseteq AddressId /\ AddressId \subseteq Nat
        BY <1>2 DEF RequestState, AddressId
      <3>2. q.toUnset \in SUBSET Nat
        BY <3>1
      <3> QED
        BY <2>1, <3>1, <3>2, FirstTime
    <2>3. CASE t[a] = "none"
      BY <1>1, <2>1, <2>3, FailureKeeps
    <2>4. CASE t[a] # "none"
      <3> DEFINE w == [b \in DOMAIN q.written \cup {a} |-> IF b = a THEN "plain" ELSE q.written[b]]
                 p == [q EXCEPT !.toUnset = q.toUnset \ {a}, !.written = w]
      <3>1. request' = [request EXCEPT ![r] = p]
        BY <2>1, <2>4 DEF AddressInv, AddressTypes
      <3> HIDE DEF a, q, t
      <3>2. w \in WrittenRows /\ DOMAIN w = DOMAIN q.written \cup {a}
        <4>1. q.written \in WrittenRows
          BY <1>2 DEF RequestState
        <4>2. PICK D \in SUBSET AddressId : q.written \in [D -> RowState]
          BY <4>1 DEF WrittenRows
        <4>3. w \in [D \cup {a} -> RowState] /\ D \cup {a} \in SUBSET AddressId
          BY <2>2, <4>2 DEF RowState
        <4> QED
          BY <4>3 DEF WrittenRows
      <3>3. \A b \in DOMAIN w : w[b] = IF b = a THEN "plain" ELSE q.written[b]
        OBVIOUS
      <3> HIDE DEF w
      <3>4. /\ p \in RequestState /\ p.at = "flush" /\ p.op = q.op /\ p.id = q.id
            /\ p.asked = q.asked /\ p.loaded = q.loaded /\ p.toUnset = q.toUnset \ {a}
            /\ p.alone = q.alone /\ p.written = w
        BY <1>2, <2>1, <2>2, <3>2 DEF RequestState
      <3> HIDE DEF p
      <3>5. \A b \in Dealt(p) : b \in Dealt(q)
        BY <2>2, <3>2, <3>4 DEF Dealt
      <3>6. Dealt(p) \subseteq AddressId
        BY <1>2, <3>5
      <3>7. Unborn(p) => Unborn(q) /\ p.id = q.id
        BY <2>1, <3>4 DEF Unborn
      <3>8. p.alone => OnTheWay(address, p)
        <4> SUFFICES ASSUME q.alone PROVE OnTheWay(address, p)
          BY <3>4
        <4>1. /\ q.asked /\ DefaultsOf(t) = q.toUnset /\ q.op \in {"create", "update"}
              /\ q.op = "update" => q.loaded = "plain" /\ t[q.id] # "none"
          BY <1>2, <2>1 DEF OnTheWay
        <4>2. Overlay(address, p) = [t EXCEPT ![a] = "plain"]
          BY <1>2, <2>2, <3>2, <3>3, <3>4 DEF Overlay
        <4>3. DefaultsOf([t EXCEPT ![a] = "plain"]) = q.toUnset \ {a}
          <5>1. "plain" \in RowState /\ "plain" # "default"
            BY DEF RowState
          <5>2. DefaultsOf([t EXCEPT ![a] = "plain"]) = DefaultsOf(t) \ {a}
            BY <1>2, <2>2, <5>1, DefaultsAfter
          <5> QED
            BY <4>1, <5>2
        <4>4. [t EXCEPT ![a] = "plain"][q.id] = "none" => t[q.id] = "none"
          BY <1>2, <2>2
        <4> QED
          BY <3>4, <4>1, <4>2, <4>3, <4>4 DEF OnTheWay
      <3>9. \A b \in DOMAIN p.written : b \in DOMAIN q.written \/ RowFree(r, b)
        BY <2>1, <3>2, <3>4
      <3>10. request[r].at # "idle" /\ p.at # "idle" /\ p.id \in AddressId /\ p.at # "check"
        BY <1>1, <1>2, <3>4 DEF q
      <3> QED
        BY <1>1, <3>1, <3>4, <3>5, <3>6, <3>7, <3>8, <3>9, <3>10, StatementKeeps DEF q, t
    <2> QED
      BY <2>3, <2>4
  <1>5. CASE FlushDone(r)
    <2> DEFINE p == [q EXCEPT !.at = "write"]
    <2>1. q.at = "flush" /\ q.toUnset = {} /\ request' = [request EXCEPT ![r] = p]
      BY <1>5 DEF FlushDone, AddressInv, AddressTypes
    <2> HIDE DEF q, t
    <2>2. /\ p \in RequestState /\ p.at = "write" /\ p.op = q.op /\ p.id = q.id
          /\ p.asked = q.asked /\ p.loaded = q.loaded /\ p.toUnset = q.toUnset
          /\ p.alone = q.alone /\ p.written = q.written
      BY <1>2 DEF RequestState
    <2> HIDE DEF p
    <2>3. Dealt(p) = Dealt(q) /\ (Unborn(p) => Unborn(q) /\ p.id = q.id)
      BY <2>1, <2>2 DEF Dealt, Unborn
    <2>4. p.alone => OnTheWay(address, p)
      <3> SUFFICES ASSUME q.alone PROVE OnTheWay(address, p)
        BY <2>2
      <3>1. Overlay(address, p) = t
        BY <1>2, <2>2 DEF Overlay
      <3> QED
        BY <1>2, <2>1, <2>2, <3>1 DEF OnTheWay
    <2>5. request[r].at # "idle" /\ p.at # "idle" /\ p.id \in AddressId /\ p.at # "check"
      BY <1>1, <1>2, <2>2 DEF q
    <2> QED
      BY <1>1, <1>2, <2>1, <2>2, <2>3, <2>4, <2>5, StatementKeeps DEF q, t
  <1> QED
    BY <1>3, <1>4, <1>5

(* Lemma: a request writes a row of its own or a free one that it has seen.*)
LEMMA WriteKeeps ==
  ASSUME AddressInv, NEW r \in AddressRequest, request[r].at # "idle",
         NEW a \in AddressId, NEW v \in RowState, NEW next \in {"check", "commit"},
         request' = [request EXCEPT ![r] = Wrote(request[r], a, v, next)],
         UNCHANGED <<address, nextId>>,
         a \in Dealt(request[r]) \/ View(r)[a] # "none",
         a \in DOMAIN request[r].written \/ RowFree(r, a),
         next = "check" => a = request[r].id,
         request[r].alone =>
           IF next = "commit" THEN Repaired(address, [View(r) EXCEPT ![a] = v], request[r])
           ELSE /\ ~ request[r].asked
                /\ DefaultsOf([View(r) EXCEPT ![a] = v]) = DefaultsOf(address)
  PROVE  AddressInv'
  <1> DEFINE q == request[r]
             p == Wrote(q, a, v, next)
  <1>1. /\ q \in RequestState /\ address \in [AddressId -> RowState]
        /\ View(r) = Overlay(address, q) /\ q.id \in AddressId /\ Dealt(q) \subseteq AddressId
    BY RequestIs
  <1> HIDE DEF q
  <1>2. /\ p \in RequestState
        /\ p.at = next /\ p.op = q.op /\ p.id = q.id /\ p.asked = q.asked
        /\ p.loaded = q.loaded /\ p.toUnset = q.toUnset /\ p.alone = q.alone
        /\ DOMAIN p.written = DOMAIN q.written \cup {a}
        /\ Overlay(address, p) = [View(r) EXCEPT ![a] = v]
    <2>1. /\ p \in RequestState
          /\ p.at = next /\ p.op = q.op /\ p.id = q.id /\ p.asked = q.asked
          /\ p.loaded = q.loaded /\ p.toUnset = q.toUnset /\ p.alone = q.alone
          /\ DOMAIN p.written = DOMAIN q.written \cup {a}
          /\ Overlay(address, p) \in [AddressId -> RowState]
          /\ \A b \in AddressId :
               Overlay(address, p)[b] = IF b = a THEN v ELSE Overlay(address, q)[b]
      <3>1. p = Wrote(q, a, v, next) /\ next \in {"check", "promote", "commit"}
        OBVIOUS
      <3> HIDE DEF p
      <3>2. q \in RequestState /\ address \in [AddressId -> RowState]
        BY <1>1
      <3> QED
        BY ONLY <3>1, <3>2, v \in RowState, a \in AddressId, WroteIs
    <2>2. Overlay(address, q) \in [AddressId -> RowState]
      BY <1>1, OverlayIsRows
    <2> HIDE DEF p
    <2>3. Overlay(address, p) = [Overlay(address, q) EXCEPT ![a] = v]
      BY <2>1, <2>2
    <2> QED
      BY <1>1, <2>1, <2>3
  <1>3. request' = [request EXCEPT ![r] = p] /\ request[r].at # "idle"
    BY DEF q
  <1> HIDE DEF p
  <1>4. Dealt(p) = Dealt(q) \cup {a}
    BY <1>2 DEF Dealt
  <1>5. ~ Unborn(p) /\ p.at # "idle"
    BY <1>2 DEF Unborn
  <1>6. p.alone => OnTheWay(address, p)
    BY <1>2 DEF OnTheWay, Repaired, q
  <1>7. p.at = "check" => p.id \in DOMAIN p.written
    BY <1>2 DEF q
  <1>8. \A b \in Dealt(p) : b \in Dealt(request[r]) \/ View(r)[b] # "none"
    BY <1>4 DEF q
  <1>9. \A b \in DOMAIN p.written : b \in DOMAIN request[r].written \/ RowFree(r, b)
    BY <1>2 DEF q
  <1>10. /\ p.id \in AddressId /\ p.op = request[r].op /\ p.alone = request[r].alone
         /\ Dealt(p) \subseteq AddressId
    BY <1>1, <1>2, <1>4 DEF q
  <1> QED
    BY <1>2, <1>3, <1>5, <1>6, <1>7, <1>8, <1>9, <1>10, StatementKeeps

(* Lemma: a request has nothing more to write.                             *)
LEMMA NoWriteKeeps ==
  ASSUME AddressInv, NEW r \in AddressRequest, request[r].at # "idle",
         request' = [request EXCEPT ![r].at = "commit"], UNCHANGED <<address, nextId>>,
         request[r].alone => Repaired(address, View(r), request[r])
  PROVE  AddressInv'
  <1> DEFINE q == request[r]
             p == [q EXCEPT !.at = "commit"]
  <1>1. /\ q \in RequestState /\ address \in [AddressId -> RowState]
        /\ View(r) = Overlay(address, q) /\ q.id \in AddressId /\ Dealt(q) \subseteq AddressId
    BY RequestIs
  <1>2. request' = [request EXCEPT ![r] = p]
    BY DEF AddressInv, AddressTypes
  <1> HIDE DEF q
  <1>3. /\ p \in RequestState
        /\ p.at = "commit" /\ p.op = q.op /\ p.id = q.id /\ p.asked = q.asked
        /\ p.toUnset = q.toUnset /\ p.alone = q.alone /\ p.written = q.written
    BY <1>1 DEF RequestState
  <1> HIDE DEF p
  <1>4. Overlay(address, p) = View(r) /\ Dealt(p) = Dealt(q) /\ ~ Unborn(p)
    BY <1>1, <1>3 DEF Overlay, Dealt, Unborn
  <1>5. p.alone => OnTheWay(address, p)
    BY <1>3, <1>4 DEF OnTheWay, Repaired, q
  <1> QED
    BY <1>1, <1>2, <1>3, <1>4, <1>5, StatementKeeps DEF q

(* Lemma: a new address is inserted, and becomes the default if there is   *)
(* none.                                                                   *)
LEMMA NewAddressSteps ==
  ASSUME AddressInv, NEW r \in AddressRequest, WriteNew(r) \/ CheckDefault(r)
  PROVE  AddressInv'
  <1> DEFINE q == request[r]
             t == View(r)
  <1>0. q.at # "idle" /\ UNCHANGED <<address, nextId>>
    BY DEF WriteNew, CheckDefault
  <1>1. /\ q \in RequestState /\ address \in [AddressId -> RowState]
        /\ t = Overlay(address, q) /\ t \in [AddressId -> RowState]
        /\ q.id \in AddressId /\ Dealt(q) \subseteq AddressId
        /\ q.at = "check" => q.id \in DOMAIN q.written
        /\ q.alone => OnTheWay(address, q)
        /\ Unborn(q) => address[q.id] = "none" /\ RowFree(r, q.id)
    BY <1>0, RequestIs
  <1>2. q.id \in Dealt(q)
    BY DEF Dealt
  <1>3. "default" \in RowState /\ "plain" \in RowState /\ "plain" # "default"
    BY DEF RowState
  <1>4. /\ DefaultsOf([t EXCEPT ![q.id] = "default"]) = DefaultsOf(t) \cup {q.id}
        /\ DefaultsOf([t EXCEPT ![q.id] = "plain"]) = DefaultsOf(t) \ {q.id}
    BY <1>1, <1>3, DefaultsAfter
  <1>5. CASE WriteNew(r) /\ q.asked
    <2>1. /\ q.at = "write" /\ q.op = "create"
          /\ request' = [request EXCEPT ![r] = Wrote(q, q.id, "default", "commit")]
      BY <1>5 DEF WriteNew
    <2>2. RowFree(r, q.id)
      BY <1>1, <2>1 DEF Unborn
    <2>3. q.alone => Repaired(address, [t EXCEPT ![q.id] = "default"], q)
      <3> HIDE DEF q, t
      <3>1. q.alone => DefaultsOf(t) = {}
        BY <1>1, <1>5, <2>1 DEF OnTheWay
      <3>2. q.alone => DefaultsOf([t EXCEPT ![q.id] = "default"]) = {q.id}
        BY <1>4, <3>1
      <3> QED
        BY <1>1, <3>2 DEF Repaired
    <2> QED
      BY <1>0, <1>1, <1>2, <1>3, <2>1, <2>2, <2>3, WriteKeeps
  <1>6. CASE WriteNew(r) /\ ~ q.asked
    <2>1. /\ q.at = "write" /\ q.op = "create"
          /\ request' = [request EXCEPT ![r] = Wrote(q, q.id, "plain", "check")]
      BY <1>6 DEF WriteNew
    <2>2. RowFree(r, q.id) /\ address[q.id] = "none"
      BY <1>1, <2>1 DEF Unborn
    <2>3. q.alone => DefaultsOf([t EXCEPT ![q.id] = "plain"]) = DefaultsOf(address)
      <3> HIDE DEF q, t
      <3>1. q.alone => t = address
        BY <1>1, <1>6, <2>1 DEF OnTheWay
      <3>2. q.id \notin DefaultsOf(address)
        BY <2>2 DEF DefaultsOf
      <3> QED
        BY <1>4, <3>1, <3>2
    <2> QED
      BY <1>0, <1>1, <1>2, <1>3, <1>6, <2>1, <2>2, <2>3, WriteKeeps
  <1>7. CASE CheckDefault(r) /\ DefaultsOf(t) = {}
    <2>1. /\ q.at = "check"
          /\ request' = [request EXCEPT ![r] = Wrote(q, q.id, "default", "commit")]
      BY <1>7 DEF CheckDefault
    <2>2. q.alone => Repaired(address, [t EXCEPT ![q.id] = "default"], q)
      <3> HIDE DEF q, t
      <3>1. q.alone => ~ q.asked /\ DefaultsOf(t) = DefaultsOf(address)
        BY <1>1, <2>1 DEF OnTheWay
      <3>2. DefaultsOf([t EXCEPT ![q.id] = "default"]) = {q.id}
        BY <1>4, <1>7
      <3> QED
        BY <1>7, <3>1, <3>2 DEF Repaired
    <2> QED
      BY <1>0, <1>1, <1>2, <1>3, <2>1, <2>2, WriteKeeps
  <1>8. CASE CheckDefault(r) /\ DefaultsOf(t) # {}
    <2>1. q.at = "check" /\ request' = [request EXCEPT ![r] = [q EXCEPT !.at = "commit"]]
      BY <1>8 DEF CheckDefault
    <2>2. request' = [request EXCEPT ![r].at = "commit"]
      BY <2>1
    <2>3. q.alone => Repaired(address, t, q)
      <3> HIDE DEF q, t
      <3>1. q.alone => ~ q.asked /\ DefaultsOf(t) = DefaultsOf(address)
        BY <1>1, <2>1 DEF OnTheWay
      <3> QED
        BY <1>8, <3>1 DEF Repaired
    <2> QED
      BY <1>0, <2>2, <2>3, NoWriteKeeps
  <1> QED
    BY <1>5, <1>6, <1>7, <1>8

(* Lemma: an update makes its row the default, or gives the default up.    *)
LEMMA UpdateSteps ==
  ASSUME AddressInv, NEW r \in AddressRequest, WriteUpdate(r) PROVE AddressInv'
  <1> DEFINE q == request[r]
             t == View(r)
             v == IF q.asked THEN "default" ELSE "plain"
  <1>0. /\ q.at = "write" /\ q.op = "update" /\ (q.loaded # v => RowFree(r, q.id))
        /\ UNCHANGED <<address, nextId>>
        /\ request' = [request EXCEPT ![r] =
             IF q.loaded = v THEN [q EXCEPT !.at = "commit"]
             ELSE IF t[q.id] = "none" THEN IdleRequest
             ELSE Wrote(q, q.id, v, "commit")]
    BY DEF WriteUpdate
  <1>1. /\ q \in RequestState /\ address \in [AddressId -> RowState]
        /\ t = Overlay(address, q) /\ t \in [AddressId -> RowState]
        /\ q.id \in AddressId /\ Dealt(q) \subseteq AddressId
        /\ q.alone => OnTheWay(address, q)
    BY <1>0, RequestIs
  <1>2. q.id \in Dealt(q) /\ q.asked \in BOOLEAN
    BY <1>1 DEF Dealt, RequestState
  <1>3. v \in RowState /\ (v = "default" <=> q.asked)
    BY DEF RowState
  <1>4. DefaultsOf([t EXCEPT ![q.id] = v]) =
          IF q.asked THEN DefaultsOf(t) \cup {q.id} ELSE DefaultsOf(t) \ {q.id}
    BY <1>1, <1>3, DefaultsAfter
  <1>5. q.alone /\ q.asked => DefaultsOf(t) = {} /\ q.loaded = "plain"
    <2> HIDE DEF q, t
    <2> QED
      BY <1>0, <1>1 DEF OnTheWay
  <1>6. q.alone /\ ~ q.asked => t = address
    <2> HIDE DEF q, t
    <2> QED
      BY <1>0, <1>1 DEF OnTheWay
  <1>7. CASE q.loaded = v
    <2>1. request' = [request EXCEPT ![r].at = "commit"]
      BY <1>0, <1>7
    <2>2. q.alone => ~ q.asked
      BY <1>5, <1>7
    <2>3. q.alone => Repaired(address, t, q)
      <3> HIDE DEF q, t
      <3> QED
        BY <1>0, <1>6, <2>2 DEF Repaired
    <2>4. q.at # "idle"
      BY <1>0
    <2> QED
      BY <1>0, <2>1, <2>3, <2>4, NoWriteKeeps
  <1>8. CASE q.loaded # v /\ t[q.id] = "none"
    <2>1. request' = [request EXCEPT ![r] = IdleRequest]
      BY <1>0, <1>8
    <2> QED
      BY <1>0, <2>1, FailureKeeps
  <1>9. CASE q.loaded # v /\ t[q.id] # "none"
    <2>1. request' = [request EXCEPT ![r] = Wrote(q, q.id, v, "commit")]
      BY <1>0, <1>9
    <2>2. q.alone => Repaired(address, [t EXCEPT ![q.id] = v], q)
      <3> HIDE DEF q, t, v
      <3>1. CASE q.asked
        BY <1>1, <1>4, <1>5, <3>1 DEF Repaired
      <3>2. CASE ~ q.asked
        BY <1>0, <1>4, <1>6, <3>2 DEF Repaired
      <3> QED
        BY <3>1, <3>2
    <2>3. q.at # "idle" /\ RowFree(r, q.id)
      BY <1>0, <1>9
    <2> HIDE DEF v
    <2> QED
      BY <1>0, <1>1, <1>2, <1>3, <2>1, <2>2, <2>3, WriteKeeps
  <1> QED
    BY <1>7, <1>8, <1>9

(* Lemma: a delete gives the default to the oldest of the others.          *)
LEMMA DeleteSteps ==
  ASSUME AddressInv, NEW r \in AddressRequest, WriteDelete(r) PROVE AddressInv'
  <1> DEFINE q == request[r]
             t == View(r)
             gone == Wrote(q, q.id, "none", "commit")
             rest == {a \in AddressId \ {q.id} : t[a] # "none"}
             p == [gone EXCEPT !.at = "promote", !.id = Min(rest), !.loaded = t[Min(rest)]]
  <1>0. /\ q.at = "write" /\ q.op = "delete" /\ RowFree(r, q.id)
        /\ UNCHANGED <<address, nextId>>
        /\ request' = [request EXCEPT ![r] =
             IF q.loaded = "default" /\ rest # {} THEN p ELSE gone]
    BY DEF WriteDelete
  <1>1. /\ q \in RequestState /\ address \in [AddressId -> RowState]
        /\ t = Overlay(address, q) /\ t \in [AddressId -> RowState]
        /\ q.id \in AddressId /\ Dealt(q) \subseteq AddressId
        /\ q.alone => OnTheWay(address, q)
    BY <1>0, RequestIs
  <1>2. q.id \in Dealt(q)
    BY DEF Dealt
  <1>3. "none" \in RowState /\ "none" # "default" /\ "none" # "plain"
    BY DEF RowState
  <1>4. DefaultsOf([t EXCEPT ![q.id] = "none"]) = DefaultsOf(t) \ {q.id}
    BY <1>1, <1>3, DefaultsAfter
  <1>5. q.alone => ~ q.asked /\ t = address /\ q.loaded = address[q.id] /\ q.loaded # "none"
    <2> HIDE DEF q, t
    <2> QED
      BY <1>0, <1>1 DEF OnTheWay
  <1>6. CASE q.loaded = "default" /\ rest # {}
    <2> HIDE DEF rest, q, t
    <2>1. /\ gone \in RequestState
          /\ gone.op = q.op /\ gone.asked = q.asked
          /\ gone.toUnset = q.toUnset /\ gone.alone = q.alone
          /\ DOMAIN gone.written = DOMAIN q.written \cup {q.id}
          /\ Overlay(address, gone) = [t EXCEPT ![q.id] = "none"]
      <3>1. /\ gone \in RequestState
            /\ gone.op = q.op /\ gone.asked = q.asked
            /\ gone.toUnset = q.toUnset /\ gone.alone = q.alone
            /\ DOMAIN gone.written = DOMAIN q.written \cup {q.id}
            /\ Overlay(address, gone) \in [AddressId -> RowState]
            /\ \A b \in AddressId :
                 Overlay(address, gone)[b] = IF b = q.id THEN "none" ELSE Overlay(address, q)[b]
        BY <1>1, <1>3, WroteIs
      <3> HIDE DEF gone
      <3>2. Overlay(address, gone) = [t EXCEPT ![q.id] = "none"]
        BY <1>1, <3>1
      <3> QED
        BY <3>1, <3>2
    <2> DEFINE a == Min(rest)
    <2>2. a \in rest
      <3>1. rest \in SUBSET Nat
        BY DEF rest, AddressId
      <3> QED
        BY <1>6, <3>1, FirstTime
    <2>3. a \in AddressId /\ a # q.id /\ t[a] # "none" /\ t[a] \in RowState
      BY <1>1, <2>2 DEF rest
    <2>4. a \in 0..MaxAddresses
      BY <2>3, AddressAssumption DEF AddressId
    <2> HIDE DEF a, gone
    <2>5. p = [gone EXCEPT !.at = "promote", !.id = a, !.loaded = t[a]]
      BY DEF a
    <2> HIDE DEF p
    <2>6. /\ p \in RequestState /\ p.at = "promote" /\ p.op = q.op /\ p.id = a
          /\ p.asked = q.asked /\ p.loaded = t[a] /\ p.toUnset = q.toUnset
          /\ p.alone = q.alone /\ p.written = gone.written
      BY <2>1, <2>3, <2>4, <2>5 DEF RequestState
    <2>7. Dealt(p) \subseteq Dealt(q) \cup {a}
      BY <2>1, <2>6 DEF Dealt
    <2>8. Overlay(address, p) = [t EXCEPT ![q.id] = "none"]
      BY <2>1, <2>6 DEF Overlay
    <2>9. p.alone => OnTheWay(address, p)
      <3> SUFFICES ASSUME q.alone PROVE OnTheWay(address, p)
        BY <2>6
      <3>1. q.id \in DefaultsOf(address)
        BY <1>1, <1>5, <1>6 DEF DefaultsOf
      <3>2. DefaultsOf(Overlay(address, p)) = DefaultsOf(address) \ {q.id}
        BY <1>4, <1>5, <2>8
      <3>3. Overlay(address, p)[a] = t[a]
        BY <1>1, <2>3, <2>8
      <3> QED
        BY <1>5, <2>3, <2>6, <3>1, <3>2, <3>3 DEF OnTheWay
    <2>10. request' = [request EXCEPT ![r] = p]
      BY <1>0, <1>6
    <2>11. ~ Unborn(p) /\ p.at # "idle" /\ q.at # "idle" /\ p.at # "check"
      BY <1>0, <2>6 DEF Unborn
    <2>12. \A b \in DOMAIN p.written : b \in DOMAIN q.written \/ RowFree(r, b)
      BY <1>0, <2>1, <2>6
    <2>13. Dealt(p) \subseteq AddressId
      BY <1>1, <2>3, <2>7
    <2>14. \A b \in Dealt(p) : b \in Dealt(q) \/ t[b] # "none"
      BY <2>3, <2>7
    <2> QED
      BY <1>0, <2>3, <2>6, <2>9, <2>10, <2>11, <2>12, <2>13, <2>14, StatementKeeps DEF q, t
  <1>7. CASE ~ (q.loaded = "default" /\ rest # {})
    <2>1. request' = [request EXCEPT ![r] = Wrote(q, q.id, "none", "commit")]
      BY <1>0, <1>7
    <2>2. q.alone => Repaired(address, [t EXCEPT ![q.id] = "none"], q)
      <3> SUFFICES ASSUME q.alone PROVE Repaired(address, [t EXCEPT ![q.id] = "none"], q)
        OBVIOUS
      <3>1. ~ q.asked /\ DefaultsOf([t EXCEPT ![q.id] = "none"]) = DefaultsOf(address) \ {q.id}
        BY <1>4, <1>5
      <3>2. CASE rest = {}
        <4>1. \A a \in AddressId : [t EXCEPT ![q.id] = "none"][a] = "none"
          BY <1>1, <3>2
        <4> HIDE DEF q, t
        <4> QED
          BY <3>1, <4>1 DEF Repaired
      <3>3. CASE q.loaded # "default"
        <4>1. q.id \notin DefaultsOf(address)
          BY <1>5, <3>3 DEF DefaultsOf
        <4> HIDE DEF q, t
        <4> QED
          BY <3>1, <4>1 DEF Repaired
      <3> QED
        BY <1>7, <3>2, <3>3
    <2>3. q.at # "idle"
      BY <1>0
    <2> HIDE DEF rest, gone, p
    <2> QED
      BY <1>0, <1>1, <1>2, <1>3, <2>1, <2>2, <2>3, WriteKeeps
  <1> QED
    BY <1>6, <1>7

LEMMA PromoteSteps ==
  ASSUME AddressInv, NEW r \in AddressRequest, Promote(r) PROVE AddressInv'
  <1> DEFINE q == request[r]
             t == View(r)
  <1>0. /\ q.at = "promote" /\ (q.loaded # "default" => RowFree(r, q.id))
        /\ UNCHANGED <<address, nextId>>
        /\ request' = [request EXCEPT ![r] =
             IF q.loaded = "default" THEN [q EXCEPT !.at = "commit"]
             ELSE IF t[q.id] = "none" THEN IdleRequest
             ELSE Wrote(q, q.id, "default", "commit")]
    BY DEF Promote
  <1>1. /\ q \in RequestState /\ address \in [AddressId -> RowState]
        /\ t = Overlay(address, q) /\ t \in [AddressId -> RowState]
        /\ q.id \in AddressId /\ Dealt(q) \subseteq AddressId
        /\ q.alone => OnTheWay(address, q)
    BY <1>0, RequestIs
  <1>2. q.id \in Dealt(q)
    BY DEF Dealt
  <1>3. "default" \in RowState
    BY DEF RowState
  <1>4. DefaultsOf([t EXCEPT ![q.id] = "default"]) = DefaultsOf(t) \cup {q.id}
    BY <1>1, <1>3, DefaultsAfter
  <1>5. q.alone => /\ ~ q.asked /\ t[q.id] = q.loaded /\ q.loaded # "none"
                   /\ \E a \in DefaultsOf(address) : DefaultsOf(t) = DefaultsOf(address) \ {a}
    <2> HIDE DEF q, t
    <2> QED
      BY <1>0, <1>1 DEF OnTheWay
  <1>6. CASE q.loaded = "default"
    <2>1. request' = [request EXCEPT ![r].at = "commit"]
      BY <1>0, <1>6
    <2>2. q.alone => Repaired(address, t, q)
      <3> HIDE DEF q, t
      <3>1. q.alone => q.id \in DefaultsOf(t)
        BY <1>1, <1>5, <1>6 DEF DefaultsOf
      <3> QED
        BY <1>5, <3>1 DEF Repaired
    <2>3. q.at # "idle"
      BY <1>0
    <2> QED
      BY <1>0, <2>1, <2>2, <2>3, NoWriteKeeps
  <1>7. CASE q.loaded # "default" /\ t[q.id] = "none"
    <2>1. request' = [request EXCEPT ![r] = IdleRequest]
      BY <1>0, <1>7
    <2> QED
      BY <1>0, <2>1, FailureKeeps
  <1>8. CASE q.loaded # "default" /\ t[q.id] # "none"
    <2>1. request' = [request EXCEPT ![r] = Wrote(q, q.id, "default", "commit")]
      BY <1>0, <1>8
    <2>2. q.alone => Repaired(address, [t EXCEPT ![q.id] = "default"], q)
      <3> HIDE DEF q, t
      <3> QED
        BY <1>4, <1>5 DEF Repaired
    <2>3. q.at # "idle" /\ RowFree(r, q.id)
      BY <1>0, <1>8
    <2> QED
      BY <1>0, <1>1, <1>2, <1>3, <2>1, <2>2, <2>3, WriteKeeps
  <1> QED
    BY <1>6, <1>7, <1>8

(* Lemma: the commit makes what the request sees what there is.            *)
LEMMA CommittedKeeps ==
  ASSUME AddressInv, NEW r \in AddressRequest, CommitAddresses(r) PROVE AddressInv'
  <1> DEFINE q == request[r]
  <1>0. /\ q.at = "commit" /\ address' = View(r)
        /\ request' = [request EXCEPT ![r] = IdleRequest] /\ UNCHANGED nextId
    BY DEF CommitAddresses
  <1>1. /\ q \in RequestState /\ address \in [AddressId -> RowState]
        /\ View(r) = Overlay(address, q) /\ View(r) \in [AddressId -> RowState]
    BY <1>0, RequestIs
  <1>2. \A a \in AddressId : a \in DOMAIN q.written \/ View(r)[a] = address[a]
    BY <1>1, OverlayIsRows
  <1>3. \A o \in AddressRequest : request'[o] = IF o = r THEN IdleRequest ELSE request[o]
    BY <1>0 DEF AddressInv, AddressTypes
  <1>4. AddressTypes'
    BY <1>0, <1>1, IdleIs DEF AddressInv, AddressTypes
  <1>5. IdsAreGivenOut'
    <2>1. \A a \in AddressId : address'[a] # "none" => a < nextId
      BY <1>0, <1>2 DEF AddressInv, IdsAreGivenOut, Dealt
    <2>2. \A a \in Dealt(IdleRequest) : a < nextId
      BY IdleIs DEF AddressInv, AddressTypes
    <2> QED
      BY <1>0, <1>3, <2>1, <2>2 DEF AddressInv, IdsAreGivenOut
  <1>6. RequestsAreSound' /\ RowsOfOne'
    BY <1>3, IdleIs DEF AddressInv, RequestsAreSound, RowsOfOne
  <1>7. NewRowsUnseen'
    <2> SUFFICES ASSUME NEW o \in AddressRequest, Unborn(request'[o])
                 PROVE  /\ address'[request'[o].id] = "none"
                        /\ \A p \in AddressRequest \ {o} : request'[o].id \notin Dealt(request'[p])
      BY DEF NewRowsUnseen
    <2>1. o # r /\ request'[o] = request[o]
      BY <1>3, IdleIs DEF Unborn
    <2>2. request[o].id \in AddressId /\ request[o].id # 0
      BY <2>1 DEF AddressInv, RequestsAreSound, Unborn, AddressId
    <2>3. /\ address[request[o].id] = "none"
          /\ \A p \in AddressRequest \ {o} : request[o].id \notin Dealt(request[p])
      BY <2>1 DEF AddressInv, NewRowsUnseen
    <2>4. request[o].id \notin DOMAIN q.written
      BY <2>1, <2>3 DEF Dealt
    <2> QED
      BY <1>0, <1>2, <1>3, <2>1, <2>2, <2>3, <2>4, IdleIs
  <1>8. AloneIsOnTheWay'
    <2>1. \A o \in AddressRequest : ~ request'[o].alone
      BY <1>0, <1>3, IdleIs DEF AddressInv, AloneIsOnTheWay
    <2> QED
      BY <2>1 DEF AloneIsOnTheWay
  <1> QED
    BY <1>4, <1>5, <1>6, <1>7, <1>8 DEF AddressInv

(* Lemma: every step keeps the invariant.                                  *)
LEMMA AddressStep == AddressInv /\ [AddressNext]_addressVars => AddressInv'
  <1> SUFFICES ASSUME AddressInv, [AddressNext]_addressVars PROVE AddressInv'
    OBVIOUS
  <1>1. CASE UNCHANGED addressVars
    BY <1>1 DEF addressVars, AddressInv, AddressTypes, IdsAreGivenOut, RequestsAreSound, RowsOfOne,
                NewRowsUnseen, AloneIsOnTheWay
  <1>2. CASE AddressNext
    <2>1. PICK r \in AddressRequest :
            \/ \E asked \in BOOLEAN : \/ CreateAddress(r, asked)
                                      \/ \E a \in AddressId : UpdateAddress(r, a, asked)
            \/ \E a \in AddressId : DeleteAddress(r, a)
            \/ UnsetDefault(r) \/ FlushUnset(r) \/ FlushDone(r)
            \/ WriteNew(r) \/ CheckDefault(r) \/ WriteUpdate(r) \/ WriteDelete(r) \/ Promote(r)
            \/ CommitAddresses(r) \/ FailRequest(r)
      BY <1>2 DEF AddressNext
    <2>2. CASE FailRequest(r)
      BY <2>2, FailureKeeps DEF FailRequest
    <2> QED
      BY <2>1, <2>2, RequestsBegin, UnsetSteps, NewAddressSteps, UpdateSteps, DeleteSteps,
         PromoteSteps, CommittedKeeps
  <1> QED
    BY <1>1, <1>2

(* The rows that concurrent requests have written are never the same ones. *)
THEOREM AddressTypeCorrect == AddressSpec => []AddressTypeOK
  <1>1. AddressInv => AddressTypeOK
    <2> SUFFICES ASSUME AddressInv PROVE AddressTypeOK
      OBVIOUS
    <2>1. \A r \in AddressRequest : DOMAIN request[r].written \subseteq AddressId
      BY OverlayIsRows DEF AddressInv, AddressTypes
    <2> QED
      BY <2>1 DEF AddressInv, AddressTypes, AddressTypeOK, RowState, RequestState, RowsOfOne
  <1> QED
    BY <1>1, AddressStart, AddressStep, PTL DEF AddressSpec

(* Lemma: how many defaults there are, for the sets that occur.            *)
LEMMA DefaultsAreCounted ==
  ASSUME NEW t \in [AddressId -> RowState]
  PROVE  /\ Cardinality(DefaultsOf(t)) \in Nat
         /\ Cardinality(DefaultsOf(t)) >= 1 <=> DefaultsOf(t) # {}
         /\ Cardinality(DefaultsOf(t)) = 1 <=> \E a \in AddressId : DefaultsOf(t) = {a}
         /\ Cardinality(DefaultsOf(t)) <= 1 <=> \A a, b \in DefaultsOf(t) : a = b
  <1> DEFINE D == DefaultsOf(t)
  <1>1. IsFiniteSet(D)
    <2>1. IsFiniteSet(AddressId)
      BY AddressAssumption, FS_Interval DEF AddressId
    <2>2. D \subseteq AddressId
      BY DEF DefaultsOf
    <2> QED
      BY <2>1, <2>2, FS_Subset
  <1>2. D \subseteq AddressId
    BY DEF DefaultsOf
  <1> HIDE DEF D
  <1>3. Cardinality(D) \in Nat /\ (Cardinality(D) = 0 <=> D = {})
    BY <1>1, FS_CardinalityType, FS_EmptySet
  <1>4. Cardinality(D) = 1 <=> \E a : D = {a}
    BY <1>1, FS_Singleton
  <1>5. (\E a : D = {a}) <=> \E a \in AddressId : D = {a}
    BY <1>2
  <1>6. (\A a, b \in D : a = b) <=> D = {} \/ \E a : D = {a}
    OBVIOUS
  <1>7. Cardinality(D) <= 1 <=> Cardinality(D) = 0 \/ Cardinality(D) = 1
    BY <1>3
  <1>8. Cardinality(D) >= 1 <=> D # {}
    BY <1>3
  <1>9. Cardinality(D) = 1 <=> \E a \in AddressId : D = {a}
    BY <1>4, <1>5
  <1>10. Cardinality(D) <= 1 <=> \A a, b \in D : a = b
    BY <1>3, <1>4, <1>6, <1>7
  <1> QED
    BY <1>3, <1>8, <1>9, <1>10 DEF D

(* A request that runs alone repairs what overlapping ones may have left:  *)
(* it sets exactly one default if it asks for one, leaves no more than one *)
(* where there was no more, and gives a deleted default a successor.       *)
THEOREM AloneRepairsAlways == AddressSpec => AloneRepairs
  <1> DEFINE Repairs ==
        \A r \in AddressRequest :
          LET q == request[r] IN
          q.at = "commit" /\ request'[r].at = "idle" /\ address' # address /\ q.alone =>
            /\ q.asked => NumDefaults' = 1
            /\ NumDefaults <= 1 => NumDefaults' <= 1
            /\ q.op # "update" /\ NumDefaults >= 1 =>
                 NumDefaults' >= 1 \/ \A a \in AddressId : address'[a] = "none"
  <1>1. ASSUME AddressInv, [AddressNext]_addressVars PROVE [Repairs]_addressVars
    <2> SUFFICES ASSUME AddressNext, NEW r \in AddressRequest,
                        request[r].at = "commit", request'[r].at = "idle",
                        address' # address, request[r].alone
                 PROVE  /\ request[r].asked => NumDefaults' = 1
                        /\ NumDefaults <= 1 => NumDefaults' <= 1
                        /\ request[r].op # "update" /\ NumDefaults >= 1 =>
                             NumDefaults' >= 1 \/ \A a \in AddressId : address'[a] = "none"
      BY <1>1
    <2>1. PICK o \in AddressRequest : CommitAddresses(o)
      BY DEF AddressNext, CreateAddress, UpdateAddress, DeleteAddress, UnsetDefault, FlushUnset,
             FlushDone, WriteNew, CheckDefault, WriteUpdate, WriteDelete, Promote, FailRequest
    <2>2. o = r
      BY <1>1, <2>1 DEF CommitAddresses, AddressInv, AloneIsOnTheWay
    <2>3. address' = View(r)
      BY <2>1, <2>2 DEF CommitAddresses
    <2>4. /\ address \in [AddressId -> RowState] /\ View(r) \in [AddressId -> RowState]
          /\ View(r) = Overlay(address, request[r])
          /\ OnTheWay(address, request[r])
      BY <1>1, RequestIs
    <2>5. Repaired(address, address', request[r])
      BY <2>3, <2>4 DEF OnTheWay
    <2>6. /\ NumDefaults = Cardinality(DefaultsOf(address))
          /\ NumDefaults' = Cardinality(DefaultsOf(address'))
      BY DEF NumDefaults, DefaultsOf
    <2>7. address' \in [AddressId -> RowState]
      BY <2>3, <2>4
    <2>8. /\ NumDefaults >= 1 <=> DefaultsOf(address) # {}
          /\ NumDefaults <= 1 <=> \A a, b \in DefaultsOf(address) : a = b
      BY <2>4, <2>6, DefaultsAreCounted
    <2>9. /\ NumDefaults' >= 1 <=> DefaultsOf(address') # {}
          /\ NumDefaults' = 1 <=> \E a \in AddressId : DefaultsOf(address') = {a}
          /\ NumDefaults' <= 1 <=> \A a, b \in DefaultsOf(address') : a = b
      BY <2>6, <2>7, DefaultsAreCounted
    <2> QED
      BY <2>5, <2>8, <2>9 DEF Repaired
  <1> QED
    BY <1>1, AddressStart, AddressStep, PTL DEF AddressSpec, AloneRepairs

-----------------------------------------------------------------------------
(* Advertisements: a client is told its version again only if it shows     *)
(* what the version stands for, for any creatives, schedules, clients,     *)
(* processes and edits.                                                    *)

Shows == SUBSET (Ad \X Nat)

AdRow == [updated : Nat, schedule : Schedules]

AdTable == [Ad -> AdRow \cup {NoAd}]

AdEntry == [at : Nat, version : Nat, payload : Shows, next : Nat, table : AdTable]

ClientState ==
  [at : {"idle", "version", "load"}, version : Nat, shows : Shows, owed : SUBSET Shows,
   server : Server \cup {NoAnswer}, since : Nat, read : Nat, newVersion : Nat, next : Nat,
   table : AdTable \cup {NoAnswer}]

AdTypes ==
  /\ clock \in Nat /\ Second <= clock /\ adEdits \in 0..MaxAdEdits /\ top \in Nat
  /\ reused \in BOOLEAN
  /\ ad \in AdTable
  /\ answers \in [Server -> AdEntry \cup {NoAnswer}]
  /\ client \in [Client -> ClientState]

\* Nothing is later than the clock, nor of a version that there has not been.
NothingAhead ==
  /\ \A a \in Rows(ad) : ad[a].updated \in Second..clock
  /\ VersionOf(ad, clock) <= top
  /\ \A s \in Server : answers[s] # NoAnswer => answers[s].at <= clock /\ answers[s].version <= top
  /\ \A c \in Client :
       /\ client[c].version <= top /\ client[c].since <= clock
       /\ client[c].at # "idle" => client[c].server \in Server
       /\ client[c].at = "load" => /\ client[c].newVersion <= top /\ client[c].newVersion # 0
                                   /\ client[c].table \in AdTable

\* What an answer is or will be made from: the entries of the caches, and the versions that
\* requests have read and not yet loaded.
MadeFrom(e) == [version |-> e.version, table |-> e.table, next |-> e.next]
WillBeMadeFrom(q) == [version |-> q.newVersion, table |-> q.table, next |-> q.next]

Sources ==
  {MadeFrom(answers[s]) : s \in {q \in Server : answers[q] # NoAnswer}}
  \cup {WillBeMadeFrom(client[c]) : c \in {d \in Client : client[d].at = "load"}}

\* Nothing starts or ends in a table after the clock and before the time that is kept with it.
NothingBefore(t, next, now) == \A s \in Times(t) : s <= now \/ next <= s

\* The latest version is made from the rows as they are, and no version from two tables.
SourcesAgree ==
  \A x \in Sources :
    /\ x.version = top => x.table = ad
    /\ NothingBefore(x.table, x.next, clock)
    /\ \A y \in Sources : x.version = y.version => x.table = y.table

\* A client shows what its version stands for, now if it is the latest one, or as long as
\* an answer of that version is valid.
ClientAgrees(c) ==
  client[c].version # 0 =>
    /\ client[c].version = top => client[c].shows = Active(ad, clock)
    /\ \A x \in Sources : client[c].version = x.version /\ clock < x.next =>
         client[c].shows = Active(x.table, clock)

EntryServes(e) == e # NoAnswer /\ clock < e.next => e.payload = Active(e.table, clock)

\* An answer that is being read under the version the client has.
LoadAgrees(q) ==
  q.at = "load" /\ q.version = q.newVersion => q.shows = Active(q.table, q.read)

\* As long as every change has raised the version.
VersionsTell ==
  ~ reused => /\ VersionOf(ad, clock) = top
              /\ SourcesAgree
              /\ \A c \in Client : ClientAgrees(c) /\ LoadAgrees(client[c])
              /\ \A s \in Server : EntryServes(answers[s])

AdInv == AdTypes /\ NothingAhead /\ VersionsTell

(* Lemma: the latest of times that lie before a certain one.               *)
LEMMA LatestTime ==
  ASSUME NEW T \in SUBSET Nat, T # {}, NEW n \in Nat, \A x \in T : x <= n
  PROVE  Max(T) \in T /\ \A x \in T : x <= Max(T)
  <1> DEFINE U == {u \in Nat : \A x \in T : x <= u}
  <1>1. n \in U
    OBVIOUS
  <1>2. Min(U) \in U /\ \A u \in U : Min(U) <= u
    BY <1>1, FirstTime
  <1> DEFINE m == Min(U)
  <1> HIDE DEF m
  <1>3. m \in Nat /\ (\A x \in T : x <= m) /\ \A u \in U : m <= u
    BY <1>2 DEF m
  <1>4. ASSUME m \notin T PROVE FALSE
    <2>1. PICK x \in T : TRUE
      OBVIOUS
    <2>2. x \in Nat /\ x < m
      BY <1>3, <1>4, <2>1
    <2>3. \A y \in T : y \in Nat /\ y < m
      BY <1>3, <1>4
    <2>4. m - 1 \in Nat /\ \A y \in T : y <= m - 1
      BY <1>3, <2>2, <2>3
    <2>5. m <= m - 1
      BY <1>3, <2>4
    <2> QED
      BY <1>3, <2>5
  <1>5. \E x \in T : \A y \in T : x >= y
    BY <1>3, <1>4
  <1>6. Max(T) \in T /\ \A y \in T : Max(T) >= y
    BY <1>5 DEF Max
  <1> QED
    BY <1>6

(* Lemma: the greater of two numbers.                                      *)
LEMMA GreaterOfTwo ==
  ASSUME NEW a \in Nat, NEW b \in Nat
  PROVE  Max({a, b}) = IF a >= b THEN a ELSE b
  <1> DEFINE g == IF a >= b THEN a ELSE b
  <1>1. g \in {a, b} /\ \A y \in {a, b} : g >= y
    OBVIOUS
  <1>2. \A x \in {a, b} : (\A y \in {a, b} : x >= y) => x = g
    OBVIOUS
  <1> HIDE DEF g
  <1>3. Max({a, b}) \in {a, b} /\ \A y \in {a, b} : Max({a, b}) >= y
    BY <1>1 DEF Max
  <1>4. Max({a, b}) = g
    BY <1>2, <1>3
  <1> QED
    BY <1>4 DEF g

(* Lemma: a later time is not of an earlier second.                        *)
LEMMA SecondsGrow ==
  ASSUME NEW a \in Nat, NEW b \in Nat, a <= b
  PROVE  a \div Second \in Nat /\ b \div Second \in Nat /\ a \div Second <= b \div Second
  <1>1. Second \in Nat \ {0}
    BY AdAssumption
  <1> DEFINE i == a \div Second
             j == b \div Second
  <1>2. /\ i \in Nat /\ a % Second \in 0..Second-1 /\ a = i * Second + (a % Second)
        /\ j \in Nat /\ b % Second \in 0..Second-1 /\ b = j * Second + (b % Second)
    BY <1>1, PeriodsAndRest
  <1> HIDE DEF i, j
  <1>3. ASSUME j < i PROVE FALSE
    <2>1. j * Second + Second <= i * Second
      BY <1>1, <1>2, <1>3, OnePeriodMore
    <2>2. i * Second \in Nat /\ j * Second \in Nat
      BY <1>1, <1>2
    <2> QED
      BY <1>1, <1>2, <2>1, <2>2
  <1>4. i <= j
    BY <1>2, <1>3
  <1> QED
    BY <1>2, <1>4 DEF i, j

(* The updates of a table, and its starts and ends that have passed.       *)
Passed(t, now) ==
  {0} \cup {t[a].updated : a \in Rows(t)} \cup {s \in Times(t) : s <= now}

(* Lemma: updates, starts and ends are times.                              *)
LEMMA TimesAreNat ==
  ASSUME NEW t \in AdTable
  PROVE  /\ Times(t) \subseteq Nat
         /\ \A a \in Rows(t) : a \in Ad /\ t[a].updated \in Nat
         /\ \A a \in Rows(t) : t[a].schedule.start \in Times(t) /\ t[a].schedule.end \in Times(t)
  <1>1. \A a \in Rows(t) : a \in Ad /\ t[a].updated \in Nat /\ t[a].schedule \in Schedules
    BY DEF Rows, AdTable, AdRow
  <1> QED
    BY <1>1, AdAssumption DEF Times

(* Lemma: the version of a table is that of the latest thing that has      *)
(* happened to it; only an empty table has version 0.                      *)
LEMMA VersionTells ==
  ASSUME NEW t \in AdTable, NEW now \in Nat, \A a \in Rows(t) : t[a].updated <= now
  PROVE  /\ VersionOf(t, now) \in Nat
         /\ VersionOf(t, now) = Max(Passed(t, now)) \div Second
         /\ Max(Passed(t, now)) \in Passed(t, now)
         /\ Passed(t, now) \subseteq Nat
         /\ \A x \in Passed(t, now) : x <= Max(Passed(t, now))
         /\ (\A a \in Rows(t) : Second <= t[a].updated) /\ VersionOf(t, now) = 0 => Rows(t) = {}
  <1>1. Passed(t, now) \in SUBSET Nat /\ Passed(t, now) # {}
    BY TimesAreNat DEF Passed
  <1>2. \A x \in Passed(t, now) : x <= now
    BY DEF Passed
  <1>3. /\ Max(Passed(t, now)) \in Passed(t, now)
        /\ \A x \in Passed(t, now) : x <= Max(Passed(t, now))
    BY <1>1, <1>2, LatestTime
  <1>4. VersionOf(t, now) = Max(Passed(t, now)) \div Second
    BY DEF VersionOf, Passed
  <1>5. Max(Passed(t, now)) \in Nat
    BY <1>1, <1>3
  <1>6. VersionOf(t, now) \in Nat
    BY <1>4, <1>5, SecondsGrow
  <1>7. ASSUME \A a \in Rows(t) : Second <= t[a].updated, NEW a \in Rows(t)
        PROVE  VersionOf(t, now) # 0
    <2>1. Second \in Nat \ {0} /\ t[a].updated \in Passed(t, now)
      BY AdAssumption DEF Passed
    <2>2. Second <= Max(Passed(t, now))
      BY <1>1, <1>3, <1>7, <2>1
    <2>3. Second \div Second <= Max(Passed(t, now)) \div Second
      BY <1>5, <2>1, <2>2, SecondsGrow
    <2>4. Second \div Second = 1
      BY <2>1
    <2> QED
      BY <1>4, <1>6, <2>3, <2>4
  <1> QED
    BY <1>1, <1>3, <1>4, <1>6, <1>7

(* Lemma: time does not lower the version of a table.                      *)
LEMMA VersionGrows ==
  ASSUME NEW t \in AdTable, NEW now \in Nat, \A a \in Rows(t) : t[a].updated <= now
  PROVE  VersionOf(t, now) <= VersionOf(t, now + 1)
  <1>1. \A a \in Rows(t) : t[a].updated <= now + 1
    BY TimesAreNat
  <1>2. Passed(t, now) \subseteq Passed(t, now + 1)
    BY TimesAreNat DEF Passed
  <1>3. /\ Max(Passed(t, now)) \in Nat /\ Max(Passed(t, now + 1)) \in Nat
        /\ Max(Passed(t, now)) <= Max(Passed(t, now + 1))
    BY <1>1, <1>2, VersionTells
  <1>4. /\ VersionOf(t, now) = Max(Passed(t, now)) \div Second
        /\ VersionOf(t, now + 1) = Max(Passed(t, now + 1)) \div Second
    BY <1>1, VersionTells
  <1> QED
    BY <1>3, <1>4, SecondsGrow

(* Lemma: nothing starts or ends before the next change.                   *)
LEMMA ChangeIsNext ==
  ASSUME NEW t \in AdTable, NEW now \in Nat
  PROVE  NextChange(t, now) \in Nat /\ NothingBefore(t, NextChange(t, now), now)
  <1> DEFINE T == {Never} \cup {s \in Times(t) : s > now}
  <1>1. T \in SUBSET Nat /\ T # {}
    BY TimesAreNat, AdAssumption
  <1>2. Min(T) \in T /\ \A u \in T : Min(T) <= u
    BY <1>1, FirstTime
  <1>3. Min(T) \in Nat /\ \A s \in Times(t) : s <= now \/ Min(T) <= s
    BY <1>1, <1>2, TimesAreNat
  <1> QED
    BY <1>3 DEF NextChange, NothingBefore

(* Lemma: what is active does not change while nothing starts or ends.     *)
LEMMA ActiveStays ==
  ASSUME NEW t \in AdTable, NEW now \in Nat, NEW next \in Nat,
         NothingBefore(t, next, now), now + 1 < next
  PROVE  Active(t, now + 1) = Active(t, now)
  <1>1. ASSUME NEW a \in Rows(t)
        PROVE  Running(t[a].schedule, now + 1) <=> Running(t[a].schedule, now)
    <2>1. /\ t[a].schedule.start \in Times(t) /\ t[a].schedule.end \in Times(t)
          /\ t[a].schedule.start \in Nat /\ t[a].schedule.end \in Nat
      BY TimesAreNat
    <2>2. /\ t[a].schedule.start <= now \/ next <= t[a].schedule.start
          /\ t[a].schedule.end <= now \/ next <= t[a].schedule.end
      BY <2>1 DEF NothingBefore
    <2> QED
      BY <2>1, <2>2 DEF Running
  <1>2. {a \in Rows(t) : Running(t[a].schedule, now + 1)}
          = {a \in Rows(t) : Running(t[a].schedule, now)}
    BY <1>1
  <1> QED
    BY <1>2 DEF Active

(* Lemma: what is active can be shown.                                     *)
LEMMA ActiveIsShown ==
  ASSUME NEW t \in AdTable, NEW now
  PROVE  Active(t, now) \in Shows /\ (Rows(t) = {} => Active(t, now) = {} /\ Times(t) = {})
  BY TimesAreNat DEF Active, Shows, Times

(* Lemma: a change that raises no version is on record.                    *)
LEMMA HistoryTells ==
  ASSUME AdTypes, Recorded, NEW v, v = VersionOf(ad', clock'), v \in Nat,
         ad' = ad => VersionOf(ad, clock) <= v,
         ~ reused => VersionOf(ad, clock) = top
  PROVE  /\ top' \in Nat /\ reused' \in BOOLEAN /\ top <= top' /\ v <= top'
         /\ ~ reused' => /\ ~ reused /\ v = top'
                         /\ \/ top < top'
                            \/ top' = top /\ ad' = ad /\ Active(ad', clock') = Active(ad, clock)
  <1>1. top \in Nat /\ reused \in BOOLEAN
    BY DEF AdTypes
  <1>2. top' = IF top >= v THEN top ELSE v
    BY <1>1, GreaterOfTwo DEF Recorded
  <1>3. reused' = (reused \/ (/\ ad' # ad \/ Active(ad', clock') # Active(ad, clock)
                              /\ v <= top))
    BY DEF Recorded
  <1>4. reused' \in BOOLEAN
    BY <1>1, <1>3
  <1>5. top' \in Nat /\ top <= top' /\ v <= top'
    BY <1>1, <1>2
  <1>6. ASSUME ~ reused'
        PROVE  /\ ~ reused /\ v = top'
               /\ \/ top < top'
                  \/ top' = top /\ ad' = ad /\ Active(ad', clock') = Active(ad, clock)
    <2>1. ~ reused /\ (v <= top => ad' = ad /\ Active(ad', clock') = Active(ad, clock))
      BY <1>3, <1>6
    <2>2. CASE v <= top
      <3>1. top <= v
        BY <2>1, <2>2
      <3>2. top = v /\ top' = top
        BY <1>1, <1>2, <2>2, <3>1
      <3> QED
        BY <2>1, <2>2, <3>2
    <2>3. CASE ~ (v <= top)
      <3>1. top < v /\ top' = v
        BY <1>1, <1>2, <2>3
      <3> QED
        BY <2>1, <3>1
    <2> QED
      BY <2>2, <2>3
  <1> QED
    BY <1>4, <1>5, <1>6

(* Lemma: a request that is answered, and its client.                      *)
LEMMA AnswerIsGiven ==
  ASSUME AdTypes, NEW c \in Client, NEW e, NEW m, Answered(c, e, m),
         e.version \in Nat, e.payload \in Shows, e.table \in AdTable
  PROVE  /\ client' \in [Client -> ClientState]
         /\ \A d \in Client : d # c => client'[d] = client[d]
         /\ client'[c].at = "idle" /\ client'[c].since = 0
         /\ client'[c].version = e.version
         /\ client'[c].shows = IF client[c].version # 0 /\ client[c].version = e.version
                               THEN client[c].shows ELSE e.payload
         /\ client'[c].owed = {Active(e.table, m), Active(e.table, clock)}
  <1> DEFINE shown == IF client[c].version # 0 /\ client[c].version = e.version
                      THEN client[c].shows ELSE e.payload
             owed == {Active(e.table, m), Active(e.table, clock)}
             q == [Fresh EXCEPT !.version = e.version, !.shows = shown, !.owed = owed]
  <1>1. client \in [Client -> ClientState]
    BY DEF AdTypes
  <1>2. client' = [client EXCEPT ![c] = q]
    BY DEF Answered
  <1>3. shown \in Shows
    BY <1>1 DEF ClientState
  <1>4. owed \in SUBSET Shows
    BY ActiveIsShown
  <1>5. Never \in Nat
    BY AdAssumption
  <1> HIDE DEF shown, owed
  <1>6. q \in ClientState
    BY <1>3, <1>4, <1>5 DEF ClientState, Fresh
  <1>7. /\ q.at = "idle" /\ q.since = 0 /\ q.version = e.version /\ q.shows = shown
        /\ q.owed = owed
    BY DEF Fresh
  <1> HIDE DEF q
  <1>8. /\ client' \in [Client -> ClientState] /\ client'[c] = q
        /\ \A d \in Client : d # c => client'[d] = client[d]
    BY <1>1, <1>2, <1>6
  <1> QED
    BY <1>7, <1>8 DEF shown, owed

(* Lemma: a client is answered from the cache.                             *)
LEMMA AskCachedKeeps ==
  ASSUME AdInv, NEW c \in Client, NEW s \in Server, AskCached(c, s)
  PROVE  AdInv' /\ (~ reused => client'[c].shows \in client'[c].owed)
  <1> DEFINE e == answers[s]
  <1>1. /\ e \in AdEntry /\ e # NoAnswer /\ clock < e.next /\ client[c].at = "idle"
        /\ Answered(c, e, clock)
        /\ UNCHANGED <<clock, ad, answers, adEdits, top, reused>>
    BY DEF AdInv, AdTypes, AskCached, Valid
  <1>2. AdTypes /\ NothingAhead /\ VersionsTell
    BY DEF AdInv
  <1>3. /\ MadeFrom(e) \in Sources /\ MadeFrom(e).version = e.version
        /\ MadeFrom(e).table = e.table /\ MadeFrom(e).next = e.next
        /\ e.version <= top
    BY <1>1, <1>2 DEF Sources, MadeFrom, NothingAhead
  <1>4. EntryServes(e) \/ reused
    BY <1>2 DEF VersionsTell
  <1> HIDE DEF e
  <1>5. e.version \in Nat /\ e.payload \in Shows /\ e.table \in AdTable
    BY <1>1 DEF AdEntry
  <1>6. /\ client' \in [Client -> ClientState]
        /\ \A d \in Client : d # c => client'[d] = client[d]
        /\ client'[c].at = "idle" /\ client'[c].since = 0
        /\ client'[c].version = e.version
        /\ client'[c].shows = IF client[c].version # 0 /\ client[c].version = e.version
                              THEN client[c].shows ELSE e.payload
        /\ client'[c].owed = {Active(e.table, clock), Active(e.table, clock)}
    BY <1>1, <1>2, <1>5, AnswerIsGiven
  <1>7. AdTypes'
    BY <1>1, <1>2, <1>6 DEF AdTypes
  <1>8. NothingAhead'
    BY <1>1, <1>2, <1>3, <1>6 DEF NothingAhead, AdTypes
  <1>9. Sources' = Sources
    <2>1. {d \in Client : client'[d].at = "load"} = {d \in Client : client[d].at = "load"}
      BY <1>1, <1>6
    <2>2. \A d \in {b \in Client : client[b].at = "load"} : client'[d] = client[d]
      BY <1>1, <1>6
    <2> QED
      BY <1>1, <2>1, <2>2 DEF Sources
  <1>10. ASSUME ~ reused
         PROVE  client'[c].shows = Active(e.table, clock)
    <2>1. CASE client[c].version # 0 /\ client[c].version = e.version
      <3>1. ClientAgrees(c)
        BY <1>2, <1>10 DEF VersionsTell
      <3> QED
        BY <1>1, <1>3, <1>6, <2>1, <3>1 DEF ClientAgrees
    <2>2. CASE ~ (client[c].version # 0 /\ client[c].version = e.version)
      BY <1>1, <1>4, <1>6, <1>10, <2>2 DEF EntryServes
    <2> QED
      BY <2>1, <2>2
  <1>11. VersionsTell'
    <2> SUFFICES ASSUME ~ reused' PROVE VersionsTell'
      BY DEF VersionsTell
    <2>1. /\ ~ reused /\ VersionOf(ad, clock) = top /\ SourcesAgree
          /\ (\A d \in Client : ClientAgrees(d) /\ LoadAgrees(client[d]))
          /\ \A q \in Server : EntryServes(answers[q])
      BY <1>1, <1>2 DEF VersionsTell
    <2>2. SourcesAgree'
      BY <1>1, <1>9, <2>1 DEF SourcesAgree
    <2>3. ClientAgrees(c)'
      <3>1. client'[c].version = top => e.table = ad
        BY <1>3, <1>6, <2>1 DEF SourcesAgree
      <3>2. ASSUME NEW x \in Sources, client'[c].version = x.version
            PROVE  x.table = e.table
        BY <1>3, <1>6, <2>1, <3>2 DEF SourcesAgree
      <3> QED
        BY <1>1, <1>9, <1>10, <2>1, <3>1, <3>2 DEF ClientAgrees
    <2>4. \A d \in Client : ClientAgrees(d)'
      BY <1>1, <1>6, <1>9, <2>1, <2>3 DEF ClientAgrees
    <2>5. \A d \in Client : LoadAgrees(client[d])'
      BY <1>6, <2>1 DEF LoadAgrees
    <2>6. \A q \in Server : EntryServes(answers[q])'
      BY <1>1, <2>1 DEF EntryServes
    <2> QED
      BY <1>1, <2>1, <2>2, <2>4, <2>5, <2>6 DEF VersionsTell
  <1> QED
    BY <1>6, <1>7, <1>8, <1>10, <1>11 DEF AdInv

(* Lemma: a request that finds nothing valid.                              *)
LEMMA AskUncachedKeeps ==
  ASSUME AdInv, NEW c \in Client, NEW s \in Server, AskUncached(c, s)
  PROVE  AdInv' /\ client'[c].at # "idle" /\ \A d \in Client : d # c => client'[d] = client[d]
  <1>1. /\ AdTypes /\ NothingAhead /\ VersionsTell
        /\ client \in [Client -> ClientState] /\ client[c] \in ClientState
        /\ client[c].at = "idle" /\ clock \in Nat
    BY DEF AdInv, AdTypes, AskUncached
  <1> DEFINE q == [client[c] EXCEPT !.at = "version", !.server = s, !.since = clock]
  <1>2. /\ client' = [client EXCEPT ![c] = q]
        /\ UNCHANGED <<clock, ad, answers, adEdits, top, reused>>
    BY DEF AskUncached
  <1>3. /\ q \in ClientState /\ q.at = "version" /\ q.server = s /\ q.since = clock
        /\ q.version = client[c].version /\ q.shows = client[c].shows
    BY <1>1 DEF ClientState
  <1> HIDE DEF q
  <1>4. /\ client' \in [Client -> ClientState] /\ client'[c] = q
        /\ \A d \in Client : d # c => client'[d] = client[d]
    BY <1>1, <1>2, <1>3
  <1>5. AdTypes'
    BY <1>1, <1>2, <1>4 DEF AdTypes
  <1>6. NothingAhead'
    BY <1>1, <1>2, <1>3, <1>4 DEF NothingAhead
  <1>7. Sources' = Sources
    <2>1. {d \in Client : client'[d].at = "load"} = {d \in Client : client[d].at = "load"}
      BY <1>1, <1>3, <1>4
    <2>2. \A d \in {b \in Client : client[b].at = "load"} : client'[d] = client[d]
      BY <1>1, <1>4
    <2> QED
      BY <1>2, <2>1, <2>2 DEF Sources
  <1>8. VersionsTell'
    <2> SUFFICES ASSUME ~ reused' PROVE VersionsTell'
      BY DEF VersionsTell
    <2>1. /\ VersionOf(ad, clock) = top /\ SourcesAgree
          /\ (\A d \in Client : ClientAgrees(d) /\ LoadAgrees(client[d]))
          /\ \A p \in Server : EntryServes(answers[p])
      BY <1>1, <1>2 DEF VersionsTell
    <2>2. SourcesAgree'
      BY <1>2, <1>7, <2>1 DEF SourcesAgree
    <2>3. \A d \in Client : ClientAgrees(d)'
      BY <1>2, <1>3, <1>4, <1>7, <2>1 DEF ClientAgrees
    <2>4. \A d \in Client : LoadAgrees(client[d])'
      BY <1>3, <1>4, <2>1 DEF LoadAgrees
    <2>5. \A p \in Server : EntryServes(answers[p])'
      BY <1>2, <2>1 DEF EntryServes
    <2> QED
      BY <1>2, <2>1, <2>2, <2>3, <2>4, <2>5 DEF VersionsTell
  <1> QED
    BY <1>3, <1>4, <1>5, <1>6, <1>8 DEF AdInv

(* Lemma: the version that a request reads now.                            *)
LEMMA VersionNow ==
  ASSUME AdTypes, NothingAhead
  PROVE  /\ VersionOf(ad, clock) \in Nat
         /\ VersionOf(ad, clock) = 0 => Rows(ad) = {}
         /\ NextChange(ad, clock) \in Nat /\ NothingBefore(ad, NextChange(ad, clock), clock)
  <1>1. ad \in AdTable /\ clock \in Nat /\ Second \in Nat
    BY AdAssumption DEF AdTypes
  <1>2. \A a \in Rows(ad) : ad[a].updated <= clock /\ Second <= ad[a].updated
    BY <1>1, TimesAreNat DEF NothingAhead
  <1>3. VersionOf(ad, clock) \in Nat /\ (VersionOf(ad, clock) = 0 => Rows(ad) = {})
    BY <1>1, <1>2, VersionTells
  <1> QED
    BY <1>1, <1>3, ChangeIsNext

(* Lemma: an empty slot is cached and answered at once.                    *)
LEMMA ReadEmptyKeeps ==
  ASSUME AdInv, NEW c \in Client, ReadVersion(c), VersionOf(ad, clock) = 0
  PROVE  AdInv' /\ client'[c].shows \in client'[c].owed
  <1> DEFINE e == [at |-> client[c].since, version |-> 0, payload |-> {},
                   next |-> NextChange(ad, clock), table |-> ad]
             s == client[c].server
  <1>1. /\ AdTypes /\ NothingAhead /\ VersionsTell
        /\ client \in [Client -> ClientState] /\ client[c] \in ClientState
        /\ client[c].at = "version" /\ clock \in Nat /\ ad \in AdTable /\ top \in Nat
        /\ s \in Server /\ client[c].since \in Nat /\ client[c].since <= clock
        /\ answers \in [Server -> AdEntry \cup {NoAnswer}]
    BY DEF AdInv, AdTypes, NothingAhead, ReadVersion, ClientState
  <1>2. /\ answers' = [answers EXCEPT ![s] = e] /\ Answered(c, e, clock)
        /\ UNCHANGED <<clock, ad, adEdits, top, reused>>
    BY DEF ReadVersion, CacheAndAnswer
  <1>3. /\ Rows(ad) = {} /\ Active(ad, clock) = {} /\ Times(ad) = {}
        /\ NextChange(ad, clock) \in Nat
    BY <1>1, VersionNow, ActiveIsShown
  <1>4. /\ e \in AdEntry /\ e.version = 0 /\ e.payload = {} /\ e.table = ad /\ e.at <= clock
        /\ e.payload \in Shows
    BY <1>1, <1>3 DEF AdEntry, Shows
  <1> HIDE DEF e, s
  <1>5. /\ answers' \in [Server -> AdEntry \cup {NoAnswer}] /\ answers'[s] = e
        /\ \A p \in Server : p # s => answers'[p] = answers[p]
    BY <1>1, <1>2, <1>4
  <1>6. /\ client' \in [Client -> ClientState]
        /\ \A d \in Client : d # c => client'[d] = client[d]
        /\ client'[c].at = "idle" /\ client'[c].since = 0 /\ client'[c].version = 0
        /\ client'[c].shows = {} /\ client'[c].owed = {Active(ad, clock)}
    <2>1. e.version \in Nat /\ e.table \in AdTable
      BY <1>1, <1>4
    <2>2. /\ client' \in [Client -> ClientState]
          /\ \A d \in Client : d # c => client'[d] = client[d]
          /\ client'[c].at = "idle" /\ client'[c].since = 0
          /\ client'[c].version = e.version
          /\ client'[c].shows = IF client[c].version # 0 /\ client[c].version = e.version
                                THEN client[c].shows ELSE e.payload
          /\ client'[c].owed = {Active(e.table, clock), Active(e.table, clock)}
      BY <1>1, <1>2, <1>4, <2>1, AnswerIsGiven
    <2> QED
      BY <1>4, <2>2
  <1>7. client'[c].shows \in client'[c].owed
    BY <1>3, <1>6
  <1>8. AdTypes'
    BY <1>1, <1>2, <1>5, <1>6 DEF AdTypes
  <1>9. NothingAhead'
    BY <1>1, <1>2, <1>4, <1>5, <1>6 DEF NothingAhead
  <1>10. \A x \in Sources' : x \in Sources \/ x = MadeFrom(e)
    <2>1. ASSUME NEW p \in Server, answers'[p] # NoAnswer
          PROVE  MadeFrom(answers'[p]) \in Sources \/ MadeFrom(answers'[p]) = MadeFrom(e)
      BY <1>5, <2>1 DEF Sources
    <2>2. ASSUME NEW d \in Client, client'[d].at = "load"
          PROVE  WillBeMadeFrom(client'[d]) \in Sources
      BY <1>6, <2>2 DEF Sources
    <2> QED
      BY <2>1, <2>2 DEF Sources
  <1>11. MadeFrom(e).version = 0 /\ MadeFrom(e).table = ad
    BY <1>4 DEF MadeFrom
  <1>12. VersionsTell'
    <2> SUFFICES ASSUME ~ reused' PROVE VersionsTell'
      BY DEF VersionsTell
    <2>1. /\ top = 0 /\ SourcesAgree /\ VersionOf(ad, clock) = top
          /\ (\A d \in Client : ClientAgrees(d) /\ LoadAgrees(client[d]))
          /\ \A p \in Server : EntryServes(answers[p])
      BY <1>1, <1>2 DEF VersionsTell
    <2>2. SourcesAgree'
      <3>1. ASSUME NEW x \in Sources'
            PROVE  /\ x.version = 0 => x.table = ad
                   /\ NothingBefore(x.table, x.next, clock)
        BY <1>3, <1>10, <1>11, <2>1 DEF SourcesAgree, NothingBefore
      <3>2. ASSUME NEW x \in Sources', NEW y \in Sources', x.version = y.version
            PROVE  x.table = y.table
        BY <1>10, <1>11, <2>1, <3>1, <3>2 DEF SourcesAgree
      <3> QED
        BY <1>2, <2>1, <3>1, <3>2 DEF SourcesAgree
    <2>3. \A d \in Client : ClientAgrees(d)'
      BY <1>2, <1>6, <1>10, <1>11, <2>1 DEF ClientAgrees
    <2>4. \A d \in Client : LoadAgrees(client[d])'
      BY <1>6, <2>1 DEF LoadAgrees
    <2>5. \A p \in Server : EntryServes(answers[p])'
      <3>1. e.payload = Active(e.table, clock)
        BY <1>3, <1>4
      <3>2. ASSUME NEW p \in Server
            PROVE  EntryServes(answers[p])'
        BY <1>2, <1>5, <2>1, <3>1 DEF EntryServes
      <3> QED
        BY <3>2
    <2> QED
      BY <1>2, <2>1, <2>2, <2>3, <2>4, <2>5 DEF VersionsTell
  <1> QED
    BY <1>7, <1>8, <1>9, <1>12 DEF AdInv

(* Lemma: a version has been read, its creatives have not.                 *)
LEMMA ReadVersionKeeps ==
  ASSUME AdInv, NEW c \in Client, ReadVersion(c), VersionOf(ad, clock) # 0
  PROVE  AdInv' /\ client'[c].at # "idle" /\ \A d \in Client : d # c => client'[d] = client[d]
  <1> DEFINE v == VersionOf(ad, clock)
             next == NextChange(ad, clock)
             q == [client[c] EXCEPT !.at = "load", !.read = clock, !.newVersion = v,
                                    !.next = next, !.table = ad]
  <1>1. /\ AdTypes /\ NothingAhead /\ VersionsTell
        /\ client \in [Client -> ClientState] /\ client[c] \in ClientState
        /\ client[c].at = "version" /\ clock \in Nat /\ ad \in AdTable /\ top \in Nat
        /\ client[c].server \in Server
    BY DEF AdInv, AdTypes, NothingAhead, ReadVersion
  <1>2. /\ client' = [client EXCEPT ![c].at = "load", ![c].read = clock,
                                    ![c].newVersion = v, ![c].next = next, ![c].table = ad]
        /\ UNCHANGED <<clock, ad, answers, adEdits, top, reused>>
    BY DEF ReadVersion
  <1>3. client' = [client EXCEPT ![c] = q]
    BY <1>1, <1>2
  <1>4. /\ v \in Nat /\ v # 0 /\ v <= top /\ next \in Nat /\ NothingBefore(ad, next, clock)
        /\ VersionOf(ad, clock) = v
    BY <1>1, VersionNow DEF NothingAhead
  <1> HIDE DEF v, next
  <1>5. q \in ClientState
    BY <1>1, <1>4 DEF ClientState
  <1>6. /\ q.at = "load" /\ q.read = clock /\ q.newVersion = v /\ q.next = next /\ q.table = ad
        /\ q.version = client[c].version /\ q.shows = client[c].shows
        /\ q.server = client[c].server /\ q.since = client[c].since
    BY <1>1 DEF ClientState
  <1> HIDE DEF q
  <1>7. /\ client' \in [Client -> ClientState] /\ client'[c] = q
        /\ \A d \in Client : d # c => client'[d] = client[d]
    BY <1>1, <1>3, <1>5
  <1>8. AdTypes'
    BY <1>1, <1>2, <1>7 DEF AdTypes
  <1>9. NothingAhead'
    BY <1>1, <1>2, <1>4, <1>6, <1>7 DEF NothingAhead
  <1>10. \A x \in Sources' : x \in Sources \/ x = WillBeMadeFrom(q)
    BY <1>2, <1>7 DEF Sources
  <1>11. /\ WillBeMadeFrom(q).version = v /\ WillBeMadeFrom(q).table = ad
         /\ WillBeMadeFrom(q).next = next
    BY <1>6 DEF WillBeMadeFrom
  <1>12. VersionsTell'
    <2> SUFFICES ASSUME ~ reused' PROVE VersionsTell'
      BY DEF VersionsTell
    <2>1. /\ v = top /\ SourcesAgree
          /\ (\A d \in Client : ClientAgrees(d) /\ LoadAgrees(client[d]))
          /\ \A p \in Server : EntryServes(answers[p])
      BY <1>1, <1>2, <1>4 DEF VersionsTell
    <2>2. SourcesAgree'
      <3>1. ASSUME NEW x \in Sources'
            PROVE  /\ x.version = top => x.table = ad
                   /\ NothingBefore(x.table, x.next, clock)
        BY <1>4, <1>10, <1>11, <2>1 DEF SourcesAgree
      <3>2. ASSUME NEW x \in Sources', NEW y \in Sources', x.version = y.version
            PROVE  x.table = y.table
        BY <1>10, <1>11, <2>1, <3>1, <3>2 DEF SourcesAgree
      <3> QED
        BY <1>2, <3>1, <3>2 DEF SourcesAgree
    <2>3. ASSUME NEW d \in Client
          PROVE  ClientAgrees(d)'
      <3>1. client'[d].version = client[d].version /\ client'[d].shows = client[d].shows
        BY <1>6, <1>7
      <3> QED
        BY <1>2, <1>10, <1>11, <2>1, <3>1 DEF ClientAgrees
    <2>4. \A d \in Client : LoadAgrees(client[d])'
      <3>1. LoadAgrees(q)
        BY <1>4, <1>6, <2>1 DEF LoadAgrees, ClientAgrees
      <3> QED
        BY <1>7, <2>1, <3>1 DEF LoadAgrees
    <2>5. \A p \in Server : EntryServes(answers[p])'
      BY <1>2, <2>1 DEF EntryServes
    <2> QED
      BY <1>2, <1>4, <2>1, <2>2, <2>3, <2>4, <2>5 DEF VersionsTell
  <1> QED
    BY <1>6, <1>7, <1>8, <1>9, <1>12 DEF AdInv

(* Lemma: the creatives of a version are loaded, a moment later.           *)
LEMMA LoadCreativesKeeps ==
  ASSUME AdInv, NEW c \in Client, LoadCreatives(c)
  PROVE  AdInv' /\ (~ reused' => client'[c].shows \in client'[c].owed)
  <1> DEFINE e == [at |-> client[c].since, version |-> client[c].newVersion,
                   payload |-> Active(ad, clock), next |-> client[c].next, table |-> ad]
             s == client[c].server
             m == client[c].read
             v == client[c].newVersion
  <1>1. /\ AdTypes /\ NothingAhead /\ VersionsTell
        /\ client \in [Client -> ClientState] /\ client[c] \in ClientState
        /\ client[c].at = "load" /\ clock \in Nat /\ ad \in AdTable /\ top \in Nat
        /\ s \in Server /\ client[c].since \in Nat /\ client[c].since <= clock
        /\ v \in Nat /\ v <= top /\ v # 0 /\ client[c].next \in Nat /\ reused \in BOOLEAN
        /\ answers \in [Server -> AdEntry \cup {NoAnswer}]
    BY DEF AdInv, AdTypes, NothingAhead, LoadCreatives, ClientState
  <1>2. /\ answers' = [answers EXCEPT ![s] = e] /\ Answered(c, e, m)
        /\ UNCHANGED <<clock, ad, adEdits, top>>
        /\ reused' = (reused \/ client[c].table # ad)
    BY DEF LoadCreatives, CacheAndAnswer
  <1>3. Active(ad, clock) \in Shows
    BY <1>1, ActiveIsShown
  <1>4. /\ e \in AdEntry /\ e.version = v /\ e.payload = Active(ad, clock) /\ e.table = ad
        /\ e.at <= clock /\ e.next = client[c].next /\ e.payload \in Shows
    BY <1>1, <1>3 DEF AdEntry
  <1> HIDE DEF e, s, m, v
  <1>5. /\ answers' \in [Server -> AdEntry \cup {NoAnswer}] /\ answers'[s] = e
        /\ \A p \in Server : p # s => answers'[p] = answers[p]
    BY <1>1, <1>2, <1>4
  <1>6. /\ client' \in [Client -> ClientState]
        /\ \A d \in Client : d # c => client'[d] = client[d]
        /\ client'[c].at = "idle" /\ client'[c].since = 0 /\ client'[c].version = v
        /\ client'[c].shows = IF client[c].version # 0 /\ client[c].version = v
                              THEN client[c].shows ELSE Active(ad, clock)
        /\ client'[c].owed = {Active(ad, m), Active(ad, clock)}
    BY <1>1, <1>2, <1>4, AnswerIsGiven
  <1>7. AdTypes'
    BY <1>1, <1>2, <1>5, <1>6 DEF AdTypes
  <1>8. NothingAhead'
    BY <1>1, <1>2, <1>4, <1>5, <1>6 DEF NothingAhead
  <1>9. ASSUME ~ reused'
        PROVE  VersionsTell' /\ client'[c].shows \in client'[c].owed
    <2>1. /\ ~ reused /\ client[c].table = ad
          /\ VersionOf(ad, clock) = top /\ SourcesAgree
          /\ (\A d \in Client : ClientAgrees(d) /\ LoadAgrees(client[d]))
          /\ \A p \in Server : EntryServes(answers[p])
      BY <1>1, <1>2, <1>9 DEF VersionsTell
    <2> DEFINE z == MadeFrom(e)
    <2>2. z \in Sources /\ z.version = v /\ z.table = ad
      <3>1. z = WillBeMadeFrom(client[c])
        BY <1>4, <2>1 DEF MadeFrom, WillBeMadeFrom, v
      <3> QED
        BY <1>1, <1>4, <3>1 DEF Sources, MadeFrom
    <2> HIDE DEF z
    <2>3. \A x \in Sources' : x \in Sources
      <3>1. ASSUME NEW p \in Server, answers'[p] # NoAnswer
            PROVE  MadeFrom(answers'[p]) \in Sources
        BY <1>5, <2>2, <3>1 DEF Sources, z
      <3>2. ASSUME NEW d \in Client, client'[d].at = "load"
            PROVE  WillBeMadeFrom(client'[d]) \in Sources
        BY <1>6, <3>2 DEF Sources
      <3> QED
        BY <3>1, <3>2 DEF Sources
    <2>4. SourcesAgree'
      BY <1>2, <2>1, <2>3 DEF SourcesAgree
    <2>5. ClientAgrees(c)'
      <3>1. CASE client[c].version = v
        <4>1. client'[c].shows = client[c].shows /\ client'[c].version = client[c].version
          BY <1>1, <1>6, <3>1
        <4> QED
          BY <1>2, <2>1, <2>3, <4>1 DEF ClientAgrees
      <3>2. CASE client[c].version # v
        <4>1. client'[c].shows = Active(ad, clock)
          BY <1>6, <3>2
        <4>2. \A x \in Sources : x.version = v => x.table = ad
          BY <2>1, <2>2 DEF SourcesAgree
        <4> QED
          BY <1>2, <1>6, <2>3, <4>1, <4>2 DEF ClientAgrees
      <3> QED
        BY <3>1, <3>2
    <2>6. \A d \in Client : ClientAgrees(d)'
      BY <1>2, <1>6, <2>1, <2>3, <2>5 DEF ClientAgrees
    <2>7. \A d \in Client : LoadAgrees(client[d])'
      BY <1>6, <2>1 DEF LoadAgrees
    <2>8. \A p \in Server : EntryServes(answers[p])'
      <3>1. e.payload = Active(e.table, clock)
        BY <1>4
      <3>2. ASSUME NEW p \in Server
            PROVE  EntryServes(answers[p])'
        BY <1>2, <1>5, <2>1, <3>1 DEF EntryServes
      <3> QED
        BY <3>2
    <2>9. VersionsTell'
      BY <1>2, <2>1, <2>4, <2>6, <2>7, <2>8 DEF VersionsTell
    <2>10. client[c].version = v => client[c].shows = Active(ad, m)
      BY <1>1, <2>1 DEF LoadAgrees, m, v
    <2> QED
      BY <1>6, <2>9, <2>10
  <1>10. VersionsTell'
    BY <1>9 DEF VersionsTell
  <1> QED
    BY <1>7, <1>8, <1>9, <1>10 DEF AdInv

(* Lemma: what an answer is made from is typed, and of a known version.    *)
LEMMA SourcesTyped ==
  ASSUME AdTypes, NothingAhead, NEW x \in Sources
  PROVE  x.version \in Nat /\ x.version <= top /\ x.table \in AdTable /\ x.next \in Nat
  <1>1. ASSUME NEW s \in Server, answers[s] # NoAnswer, x = MadeFrom(answers[s])
        PROVE  x.version \in Nat /\ x.version <= top /\ x.table \in AdTable /\ x.next \in Nat
    <2>1. answers[s] \in AdEntry /\ answers[s].version <= top
      BY <1>1 DEF AdTypes, NothingAhead
    <2> QED
      BY <1>1, <2>1 DEF MadeFrom, AdEntry
  <1>2. ASSUME NEW c \in Client, client[c].at = "load", x = WillBeMadeFrom(client[c])
        PROVE  x.version \in Nat /\ x.version <= top /\ x.table \in AdTable /\ x.next \in Nat
    <2>1. client[c] \in ClientState /\ client[c].newVersion <= top /\ client[c].table \in AdTable
      BY <1>2 DEF AdTypes, NothingAhead
    <2> QED
      BY <1>2, <2>1 DEF WillBeMadeFrom, ClientState
  <1> QED
    BY <1>1, <1>2 DEF Sources

(* Lemma: edits and time keep the invariant, since they either raise the   *)
(* version, change nothing that is shown, or are on record.                *)
LEMMA AdWorldKeeps ==
  ASSUME AdInv, Recorded, UNCHANGED client, adEdits' \in 0..MaxAdEdits,
         clock' = clock \/ (clock' = clock + 1 /\ ad' = ad),
         ad' \in AdTable, \A a \in Rows(ad') : ad'[a].updated \in Second..clock',
         answers' \in [Server -> AdEntry \cup {NoAnswer}],
         \A s \in Server : answers'[s] # NoAnswer => answers'[s] = answers[s]
  PROVE  AdInv'
  <1> DEFINE v == VersionOf(ad', clock')
  <1>1. /\ AdTypes /\ NothingAhead /\ VersionsTell /\ clock \in Nat /\ top \in Nat
        /\ ad \in AdTable /\ Second \in Nat /\ Second <= clock
        /\ client \in [Client -> ClientState] /\ answers \in [Server -> AdEntry \cup {NoAnswer}]
    BY AdAssumption DEF AdInv, AdTypes
  <1>2. clock' \in Nat /\ clock <= clock'
    BY <1>1
  <1>3. v \in Nat
    <2>1. \A a \in Rows(ad') : ad'[a].updated <= clock'
      BY <1>1, <1>2
    <2> QED
      BY <1>2, <2>1, VersionTells
  <1>4. ad' = ad => VersionOf(ad, clock) <= v
    <2>1. CASE clock' = clock
      BY <1>3, <2>1
    <2>2. CASE clock' = clock + 1 /\ ad' = ad
      <3>1. \A a \in Rows(ad) : ad[a].updated <= clock
        BY <1>1 DEF NothingAhead
      <3> QED
        BY <1>1, <2>2, <3>1, VersionGrows
    <2> QED
      BY <2>1, <2>2
  <1>5. ~ reused => VersionOf(ad, clock) = top
    BY <1>1 DEF VersionsTell
  <1>6. /\ top' \in Nat /\ reused' \in BOOLEAN /\ top <= top' /\ v <= top'
        /\ ~ reused' => /\ ~ reused /\ v = top'
                        /\ \/ top < top'
                           \/ top' = top /\ ad' = ad /\ Active(ad', clock') = Active(ad, clock)
    <2> HIDE DEF v
    <2>1. v = VersionOf(ad', clock')
      BY DEF v
    <2> QED
      BY <1>1, <1>3, <1>4, <1>5, <2>1, HistoryTells
  <1>7. AdTypes'
    BY <1>1, <1>2, <1>6 DEF AdTypes
  <1>8. NothingAhead'
    <2>1. ASSUME NEW s \in Server, answers'[s] # NoAnswer
          PROVE  answers'[s].at <= clock' /\ answers'[s].version <= top'
      <3>1. /\ answers'[s] = answers[s] /\ answers[s].at <= clock /\ answers[s].version <= top
            /\ answers[s].at \in Nat /\ answers[s].version \in Nat
        BY <1>1, <2>1 DEF NothingAhead, AdEntry
      <3> QED
        BY <1>1, <1>2, <1>6, <3>1
    <2>2. ASSUME NEW c \in Client
          PROVE  /\ client[c].version <= top' /\ client[c].since <= clock'
                 /\ client[c].at # "idle" => client[c].server \in Server
                 /\ client[c].at = "load" => /\ client[c].newVersion <= top'
                                             /\ client[c].newVersion # 0
                                             /\ client[c].table \in AdTable
      <3>1. /\ client[c].version \in Nat /\ client[c].since \in Nat /\ client[c].newVersion \in Nat
        BY <1>1 DEF ClientState
      <3> QED
        BY <1>1, <1>2, <1>6, <3>1 DEF NothingAhead
    <2>3. VersionOf(ad', clock') <= top'
      BY <1>6
    <2> QED
      BY <2>1, <2>2, <2>3 DEF NothingAhead
  <1>9. \A x \in Sources' : x \in Sources
    BY DEF Sources
  <1>10. ASSUME NEW t \in AdTable, NEW next \in Nat, NothingBefore(t, next, clock)
         PROVE  /\ NothingBefore(t, next, clock')
                /\ clock' < next => clock < next /\ Active(t, clock') = Active(t, clock)
    <2>1. NothingBefore(t, next, clock')
      BY <1>1, <1>2, <1>10, TimesAreNat DEF NothingBefore
    <2>2. CASE clock' = clock
      BY <2>1, <2>2
    <2>3. CASE clock' = clock + 1
      <3>1. clock + 1 < next => Active(t, clock + 1) = Active(t, clock)
        BY <1>1, <1>10, ActiveStays
      <3> QED
        BY <1>1, <2>1, <2>3, <3>1
    <2> QED
      BY <2>2, <2>3
  <1>11. VersionsTell'
    <2> SUFFICES ASSUME ~ reused' PROVE VersionsTell'
      BY DEF VersionsTell
    <2>1. /\ ~ reused /\ v = top'
          /\ \/ top < top'
             \/ top' = top /\ ad' = ad /\ Active(ad', clock') = Active(ad, clock)
      BY <1>6
    <2>2. /\ SourcesAgree
          /\ (\A d \in Client : ClientAgrees(d) /\ LoadAgrees(client[d]))
          /\ \A p \in Server : EntryServes(answers[p])
      BY <1>1, <2>1 DEF VersionsTell
    <2> HIDE DEF v
    <2>3. SourcesAgree'
      <3>1. ASSUME NEW x \in Sources'
            PROVE  /\ x.version = top' => x.table = ad'
                   /\ NothingBefore(x.table, x.next, clock')
        <4>1. /\ x \in Sources /\ x.version \in Nat /\ x.version <= top /\ x.table \in AdTable
              /\ x.next \in Nat
          BY <1>1, <1>9, SourcesTyped
        <4>2. /\ x.version = top => x.table = ad
              /\ NothingBefore(x.table, x.next, clock)
          BY <2>2, <4>1 DEF SourcesAgree
        <4>3. x.version = top' => x.table = ad'
          BY <1>1, <1>6, <2>1, <4>1, <4>2
        <4> QED
          BY <1>10, <4>1, <4>2, <4>3
      <3>2. \A x \in Sources', y \in Sources' : x.version = y.version => x.table = y.table
        BY <1>9, <2>2 DEF SourcesAgree
      <3> QED
        BY <3>1, <3>2 DEF SourcesAgree
    <2>4. ASSUME NEW c \in Client
          PROVE  ClientAgrees(c)'
      <3> SUFFICES ASSUME client[c].version # 0
                   PROVE  /\ client[c].version = top' => client[c].shows = Active(ad', clock')
                          /\ \A x \in Sources' :
                               client[c].version = x.version /\ clock' < x.next =>
                                 client[c].shows = Active(x.table, clock')
        BY DEF ClientAgrees
      <3>1. /\ client[c].version = top => client[c].shows = Active(ad, clock)
            /\ \A x \in Sources : client[c].version = x.version /\ clock < x.next =>
                 client[c].shows = Active(x.table, clock)
        BY <2>2 DEF ClientAgrees
      <3>2. client[c].version \in Nat /\ client[c].version <= top
        BY <1>1 DEF NothingAhead, ClientState
      <3>3. client[c].version = top' => client[c].shows = Active(ad', clock')
        BY <1>1, <1>6, <2>1, <3>1, <3>2
      <3>4. ASSUME NEW x \in Sources', client[c].version = x.version, clock' < x.next
            PROVE  client[c].shows = Active(x.table, clock')
        <4>1. x \in Sources /\ x.table \in AdTable /\ x.next \in Nat
          BY <1>1, <1>9, SourcesTyped
        <4>2. NothingBefore(x.table, x.next, clock)
          BY <2>2, <4>1 DEF SourcesAgree
        <4>3. clock < x.next /\ Active(x.table, clock') = Active(x.table, clock)
          BY <1>10, <3>4, <4>1, <4>2
        <4> QED
          BY <3>1, <3>4, <4>1, <4>3
      <3> QED
        BY <3>3, <3>4
    <2>5. \A d \in Client : LoadAgrees(client[d])'
      BY <2>2 DEF LoadAgrees
    <2>6. ASSUME NEW p \in Server
          PROVE  EntryServes(answers[p])'
      <3> SUFFICES ASSUME answers'[p] # NoAnswer, clock' < answers'[p].next
                   PROVE  answers'[p].payload = Active(answers'[p].table, clock')
        BY DEF EntryServes
      <3> DEFINE e == answers[p]
      <3>1. answers'[p] = e /\ e # NoAnswer /\ e \in AdEntry /\ MadeFrom(e) \in Sources
        BY <1>1 DEF Sources
      <3>2. EntryServes(e)
        BY <2>2
      <3>3. NothingBefore(MadeFrom(e).table, MadeFrom(e).next, clock)
        BY <2>2, <3>1 DEF SourcesAgree
      <3> HIDE DEF e
      <3>4. e.table \in AdTable /\ e.next \in Nat /\ NothingBefore(e.table, e.next, clock)
        BY <3>1, <3>3 DEF AdEntry, MadeFrom
      <3>5. clock < e.next /\ Active(e.table, clock') = Active(e.table, clock)
        BY <1>10, <3>1, <3>4
      <3> QED
        BY <3>1, <3>2, <3>5 DEF EntryServes
    <2>7. VersionOf(ad', clock') = top'
      BY <2>1 DEF v
    <2> QED
      BY <2>3, <2>4, <2>5, <2>6, <2>7 DEF VersionsTell
  <1> QED
    BY <1>7, <1>8, <1>11 DEF AdInv

(* Lemma: an edit, committed or not.                                       *)
LEMMA EditAdKeeps ==
  ASSUME AdInv, NEW a \in Ad, NEW s \in Server, EditAd(a, s)
  PROVE  AdInv'
  <1>1. /\ clock \in Nat /\ Second \in Nat /\ Second <= clock /\ ad \in AdTable
        /\ adEdits \in 0..MaxAdEdits /\ MaxAdEdits \in Nat
        /\ answers \in [Server -> AdEntry \cup {NoAnswer}]
        /\ \A b \in Rows(ad) : ad[b].updated \in Second..clock
    BY AdAssumption DEF AdInv, AdTypes, NothingAhead
  <1>2. /\ adEdits' \in 0..MaxAdEdits /\ clock' = clock /\ UNCHANGED client /\ Recorded
        /\ answers' = [answers EXCEPT ![s] = NoAnswer]
    BY <1>1 DEF EditAd
  <1>3. PICK row \in {NoAd} \cup {[updated |-> clock, schedule |-> w] : w \in Schedules} :
          ad' = ad \/ ad' = [ad EXCEPT ![a] = row]
    BY DEF EditAd
  <1>4. row \in AdRow \cup {NoAd} /\ (row # NoAd => row.updated = clock)
    BY <1>1, <1>3 DEF AdRow
  <1>5. ad' \in AdTable /\ \A b \in Rows(ad') : ad'[b].updated \in Second..clock'
    <2>1. CASE ad' = ad
      BY <1>1, <1>2, <2>1
    <2>2. CASE ad' = [ad EXCEPT ![a] = row]
      <3>1. ad' \in AdTable /\ ad'[a] = row /\ \A b \in Ad \ {a} : ad'[b] = ad[b]
        BY <1>1, <1>4, <2>2 DEF AdTable
      <3> QED
        BY <1>1, <1>2, <1>4, <3>1 DEF Rows
    <2> QED
      BY <1>3, <2>1, <2>2
  <1>6. /\ answers' \in [Server -> AdEntry \cup {NoAnswer}]
        /\ \A p \in Server : answers'[p] # NoAnswer => answers'[p] = answers[p]
    BY <1>1, <1>2
  <1> QED
    BY <1>2, <1>5, <1>6, AdWorldKeeps

(* Lemma: the clock moves on.                                              *)
LEMMA AdTickKeeps ==
  ASSUME AdInv, AdTick
  PROVE  AdInv'
  <1>1. /\ clock \in Nat /\ Second \in Nat /\ ad \in AdTable /\ adEdits \in 0..MaxAdEdits
        /\ answers \in [Server -> AdEntry \cup {NoAnswer}]
        /\ \A b \in Rows(ad) : ad[b].updated \in Second..clock
    BY AdAssumption DEF AdInv, AdTypes, NothingAhead
  <1>2. clock' = clock + 1 /\ UNCHANGED <<ad, answers, client, adEdits>> /\ Recorded
    BY DEF AdTick
  <1>3. \A b \in Rows(ad') : ad'[b].updated \in Second..clock'
    BY <1>1, <1>2
  <1> QED
    BY <1>1, <1>2, <1>3, AdWorldKeeps

(* Lemma: the invariant holds at the start.                                *)
LEMMA AdStart ==
  ASSUME AdInit
  PROVE  AdInv
  <1>1. Second \in Nat \ {0} /\ MaxAdEdits \in Nat /\ Never \in Nat
    BY AdAssumption
  <1>2. PICK s \in Schedules, there \in SUBSET Ad :
          ad = [a \in Ad |-> IF a \in there THEN [updated |-> Second, schedule |-> s] ELSE NoAd]
    BY DEF AdInit
  <1>3. /\ clock = Second /\ answers = [q \in Server |-> NoAnswer]
        /\ client = [c \in Client |-> Fresh] /\ adEdits = 0 /\ top = VersionOf(ad, clock)
        /\ reused = FALSE
    BY DEF AdInit
  <1>4. ad \in AdTable /\ \A a \in Rows(ad) : ad[a].updated = Second
    BY <1>1, <1>2 DEF AdTable, AdRow, Rows
  <1>5. top \in Nat
    BY <1>1, <1>3, <1>4, VersionTells
  <1>6. Fresh \in ClientState /\ Fresh.at = "idle" /\ Fresh.version = 0 /\ Fresh.since = 0
    BY <1>1 DEF Fresh, ClientState, Shows
  <1>7. AdTypes
    <2>1. clock \in Nat /\ Second <= clock /\ adEdits \in 0..MaxAdEdits
      <3>1. clock = Second /\ adEdits = 0
        BY <1>3
      <3> QED
        BY <1>1, <3>1
    <2>2. reused \in BOOLEAN
      BY <1>3
    <2>3. answers \in [Server -> AdEntry \cup {NoAnswer}] /\ client \in [Client -> ClientState]
      BY <1>3, <1>6
    <2> QED
      BY <1>4, <1>5, <2>1, <2>2, <2>3 DEF AdTypes
  <1>8. NothingAhead
    BY <1>1, <1>3, <1>4, <1>5, <1>6 DEF NothingAhead
  <1>9. Sources = {}
    BY <1>3, <1>6 DEF Sources
  <1>10. VersionsTell
    BY <1>3, <1>6, <1>9 DEF VersionsTell, SourcesAgree, ClientAgrees, LoadAgrees, EntryServes
  <1> QED
    BY <1>7, <1>8, <1>10 DEF AdInv

(* Lemma: the invariant holds in every reachable state.                    *)
LEMMA AdInvAlways == AdSpec => []AdInv
  <1>1. AdInv /\ [AdNext]_adVars => AdInv'
    <2> SUFFICES ASSUME AdInv, [AdNext]_adVars PROVE AdInv'
      OBVIOUS
    <2>1. CASE UNCHANGED adVars
      BY <2>1 DEF adVars, AdInv, AdTypes, NothingAhead, VersionsTell, SourcesAgree, ClientAgrees,
                  LoadAgrees, EntryServes, Sources
    <2>2. ASSUME NEW c \in Client, ReadVersion(c)
          PROVE  AdInv'
      BY <2>2, ReadEmptyKeeps, ReadVersionKeeps
    <2> QED
      BY <2>1, <2>2, AskCachedKeeps, AskUncachedKeeps, LoadCreativesKeeps, EditAdKeeps, AdTickKeeps
         DEF AdNext
  <1> QED
    BY <1>1, AdStart, PTL DEF AdSpec

(* Theorem: rows, cached answers, clients and the history are typed.       *)
THEOREM AdTypeCorrect == AdSpec => []AdTypeOK
  <1>1. AdInv => AdTypeOK
    <2> SUFFICES ASSUME AdInv PROVE AdTypeOK
      OBVIOUS
    <2>1. AdTypes /\ NothingAhead /\ clock \in Nat /\ Second \in Nat
      BY AdAssumption DEF AdInv, AdTypes
    <2>2. \A a \in Ad : ad[a] # NoAd => ad[a].updated \in 0..clock /\ ad[a].schedule \in Schedules
      <3>1. ASSUME NEW a \in Ad, ad[a] # NoAd
            PROVE  ad[a].updated \in 0..clock /\ ad[a].schedule \in Schedules
        <4>1. ad[a] \in AdRow /\ ad[a].updated \in Second..clock
          BY <2>1, <3>1 DEF AdTypes, AdTable, NothingAhead, Rows
        <4> QED
          BY <2>1, <4>1 DEF AdRow
      <3> QED
        BY <3>1
    <2>3. \A s \in Server : answers[s] # NoAnswer =>
            /\ answers[s].at \in 0..clock /\ answers[s].version \in 0..top
            /\ answers[s].next \in Nat
      BY <2>1 DEF AdTypes, NothingAhead, AdEntry
    <2>4. \A c \in Client : /\ client[c].at \in {"idle", "version", "load"}
                            /\ client[c].version \in 0..top
                            /\ client[c].since \in 0..clock
      BY <2>1 DEF AdTypes, NothingAhead, ClientState
    <2> QED
      BY <2>1, <2>2, <2>3, <2>4 DEF AdTypes, AdTypeOK
  <1> QED
    BY <1>1, AdInvAlways, PTL

(* Theorem: a client that has just been answered shows what is active of   *)
(* the rows the answer was made from, for any number of creatives, clients *)
(* and processes, any schedules and any edits that raise the version.      *)
THEOREM ShownIsActiveAlways == AdSpec => ShownIsActive
  <1> DEFINE AnswerIsActive ==
        \A c \in Client : client'[c].at = "idle" /\ client' # client
          => reused' \/ client'[c].shows \in client'[c].owed \/ client'[c] = client[c]
  <1>1. AdInv /\ [AdNext]_adVars => [AnswerIsActive]_adVars
    <2> SUFFICES ASSUME AdInv, AdNext, NEW c \in Client,
                        client'[c].at = "idle", client' # client
                 PROVE  \/ reused' \/ client'[c].shows \in client'[c].owed
                        \/ client'[c] = client[c]
      OBVIOUS
    <2>0. client \in [Client -> ClientState]
      BY DEF AdInv, AdTypes
    <2>1. ASSUME NEW d \in Client, NEW s \in Server, AskCached(d, s)
          PROVE  \/ reused' \/ client'[c].shows \in client'[c].owed
                 \/ client'[c] = client[c]
      <3>1. d # c => client'[c] = client[c]
        BY <2>0, <2>1 DEF AskCached, Answered
      <3>2. reused' = reused
        BY <2>1 DEF AskCached
      <3> QED
        BY <2>1, <3>1, <3>2, AskCachedKeeps
    <2>2. ASSUME NEW d \in Client, NEW s \in Server, AskUncached(d, s)
          PROVE  client'[c] = client[c]
      BY <2>2, AskUncachedKeeps
    <2>3. ASSUME NEW d \in Client, ReadVersion(d)
          PROVE  client'[c].shows \in client'[c].owed \/ client'[c] = client[c]
      <3>1. CASE VersionOf(ad, clock) # 0
        BY <2>3, <3>1, ReadVersionKeeps
      <3>2. CASE VersionOf(ad, clock) = 0
        <4>1. d # c => client'[c] = client[c]
          BY <2>0, <2>3, <3>2 DEF ReadVersion, CacheAndAnswer, Answered
        <4> QED
          BY <2>3, <3>2, <4>1, ReadEmptyKeeps
      <3> QED
        BY <3>1, <3>2
    <2>4. ASSUME NEW d \in Client, LoadCreatives(d)
          PROVE  \/ reused' \/ client'[c].shows \in client'[c].owed
                 \/ client'[c] = client[c]
      <3>1. d # c => client'[c] = client[c]
        BY <2>0, <2>4 DEF LoadCreatives, CacheAndAnswer, Answered
      <3> QED
        BY <2>4, <3>1, LoadCreativesKeeps
    <2>5. ASSUME NEW a \in Ad, NEW s \in Server, EditAd(a, s)
          PROVE  client' = client
      BY <2>5 DEF EditAd
    <2>6. CASE AdTick
      BY <2>6 DEF AdTick
    <2> QED
      BY <2>1, <2>2, <2>3, <2>4, <2>5, <2>6 DEF AdNext
  <1> QED
    BY <1>1, AdInvAlways, PTL DEF AdSpec, ShownIsActive

-----------------------------------------------------------------------------
(* Sums of finitely many numbers, as the community modules define them:    *)
(* SumFunction(f) takes the values of f one after the other.  Induction    *)
(* over the sets of indices is by a least counterexample.                  *)

Pick(s) == CHOOSE x \in s : TRUE

SumFrom(f, g, s) == IF s = {} THEN 0 ELSE f[Pick(s)] + g[s \ {Pick(s)}]

SumsUp(f, g, S) ==
  /\ g \in [SUBSET S -> Nat]
  /\ \A s \in SUBSET S : g[s] = SumFrom(f, g, s)

(* Lemma: the definition of SumFunction, expanded.                         *)
LEMMA SumExpanded ==
  ASSUME NEW f
  PROVE  SumFunction(f) = (CHOOSE g : g = [s \in SUBSET DOMAIN f |-> SumFrom(f, g, s)])[DOMAIN f]
  BY DEF SumFunction, SumFunctionOnSet, FoldFunctionOnSet, MapThenFoldSet, SumFrom, Pick

(* Lemma: among the subsets of a finite set that lack a property there is  *)
(* one whose own subsets have it.                                          *)
LEMMA LeastSubset ==
  ASSUME NEW S, IsFiniteSet(S), NEW T \in SUBSET (SUBSET S), T # {}
  PROVE  \E s \in T : \A t \in SUBSET s : t # s => t \notin T
  <1> DEFINE Below == StrictSubsetOrdering(S)
  <1>1. T \subseteq FiniteSubsetsOf(S)
    <2>1. \A s \in SUBSET S : IsFiniteSet(s)
      BY FS_Subset
    <2> QED
      BY <2>1 DEF FiniteSubsetsOf
  <1>2. IsWellFoundedOn(Below, FiniteSubsetsOf(S))
    BY FS_StrictSubsetOrderingWellFounded
  <1> HIDE DEF Below
  <1>3. PICK s \in T : \A t \in T : <<t, s>> \notin Below
    BY <1>1, <1>2, WFMin
  <1>4. ASSUME NEW t \in SUBSET s, t # s, t \in T PROVE FALSE
    <2>1. <<t, s>> \in Below
      BY <1>4 DEF Below, StrictSubsetOrdering
    <2> QED
      BY <1>3, <1>4, <2>1
  <1> QED
    BY <1>4

(* Lemma: the element that is taken first.                                 *)
LEMMA PickIsElement ==
  ASSUME NEW s, s # {}
  PROVE  Pick(s) \in s /\ s \ {Pick(s)} \subseteq s /\ s \ {Pick(s)} # s
  BY DEF Pick

(* Lemma: two ways to sum up agree on the indices they share.              *)
LEMMA SumsAgree ==
  ASSUME NEW S, IsFiniteSet(S), NEW f \in [S -> Nat],
         NEW A \in SUBSET S, NEW B \in SUBSET S, NEW g, NEW h, SumsUp(f, g, A), SumsUp(f, h, B),
         NEW s \in SUBSET (A \cap B)
  PROVE  g[s] = h[s]
  <1> DEFINE T == {t \in SUBSET (A \cap B) : g[t] # h[t]}
  <1> SUFFICES ASSUME T # {} PROVE FALSE
    OBVIOUS
  <1>1. T \in SUBSET (SUBSET S) /\ T # {}
    OBVIOUS
  <1> HIDE DEF T
  <1>2. PICK t \in T : \A u \in SUBSET t : u # t => u \notin T
    BY <1>1, LeastSubset
  <1>3. t \in SUBSET A /\ t \in SUBSET B /\ g[t] # h[t]
    BY <1>2 DEF T
  <1>4. g[t] = SumFrom(f, g, t) /\ h[t] = SumFrom(f, h, t)
    BY <1>3 DEF SumsUp
  <1>5. t # {}
    BY <1>3, <1>4 DEF SumFrom
  <1> DEFINE u == t \ {Pick(t)}
  <1>6. u \in SUBSET t /\ u # t
    BY <1>5, PickIsElement
  <1>7. g[u] = h[u]
    BY <1>2, <1>3, <1>6 DEF T
  <1> QED
    BY <1>3, <1>4, <1>5, <1>7 DEF SumFrom

(* Lemma: there is a way to sum up.                                        *)
LEMMA SumsExist ==
  ASSUME NEW S, IsFiniteSet(S), NEW f \in [S -> Nat], NEW A \in SUBSET S
  PROVE  \E g : SumsUp(f, g, A)
  <1> DEFINE T == {s \in SUBSET S : ~ \E g : SumsUp(f, g, s)}
  <1> SUFFICES ASSUME T # {} PROVE FALSE
    OBVIOUS
  <1>1. T \in SUBSET (SUBSET S) /\ T # {}
    OBVIOUS
  <1>2. PICK s \in T : \A t \in SUBSET s : t # s => t \notin T
    BY <1>1, LeastSubset
  <1>3. s \in SUBSET S /\ ~ \E g : SumsUp(f, g, s)
    BY <1>2
  <1> DEFINE H(t) == CHOOSE g : SumsUp(f, g, t)
             Rest(t) == t \ {Pick(t)}
             value(t) == IF t = {} THEN 0 ELSE f[Pick(t)] + H(Rest(t))[Rest(t)]
             g == [t \in SUBSET s |-> value(t)]
  <1>4. ASSUME NEW t \in SUBSET s, t # s
        PROVE  SumsUp(f, H(t), t)
    <2>1. \E h : SumsUp(f, h, t)
      BY <1>2, <1>3, <1>4
    <2> QED
      BY <2>1
  <1>5. ASSUME NEW t \in SUBSET s, t # {}
        PROVE  Pick(t) \in S /\ Rest(t) \in SUBSET t /\ Rest(t) \in SUBSET s /\ Rest(t) # s
    BY <1>3, <1>5, PickIsElement
  <1> HIDE DEF H, Rest
  <1>6. ASSUME NEW t \in SUBSET s
        PROVE  value(t) \in Nat
    <2>1. CASE t = {}
      BY <2>1
    <2>2. CASE t # {}
      <3>1. Pick(t) \in S /\ SumsUp(f, H(Rest(t)), Rest(t))
        BY <1>4, <1>5, <2>2
      <3>2. H(Rest(t))[Rest(t)] \in Nat
        BY <3>1 DEF SumsUp
      <3> QED
        BY <2>2, <3>1, <3>2
    <2> QED
      BY <2>1, <2>2
  <1>7. g \in [SUBSET s -> Nat]
    BY <1>6
  <1>8. ASSUME NEW t \in SUBSET s
        PROVE  g[t] = SumFrom(f, g, t)
    <2>1. CASE t = {}
      BY <2>1 DEF SumFrom
    <2>2. CASE t # {}
      <3> DEFINE u == Rest(t)
      <3>1. u \in SUBSET s /\ u # s /\ SumsUp(f, H(u), u)
        BY <1>4, <1>5, <2>2
      <3>2. H(u)[u] = SumFrom(f, H(u), u)
        BY <3>1 DEF SumsUp
      <3>3. value(u) = H(u)[u]
        <4>1. CASE u = {}
          BY <3>2, <4>1 DEF SumFrom
        <4>2. CASE u # {}
          <5>1. Rest(u) \in SUBSET u /\ Rest(u) \in SUBSET s /\ Rest(u) # s
            BY <1>5, <3>1, <4>2
          <5>2. SumsUp(f, H(Rest(u)), Rest(u))
            BY <1>4, <5>1
          <5>3. u \in SUBSET S /\ Rest(u) \in SUBSET S /\ Rest(u) \in SUBSET (u \cap Rest(u))
            BY <1>3, <3>1, <5>1
          <5>4. H(u)[Rest(u)] = H(Rest(u))[Rest(u)]
            BY <3>1, <5>2, <5>3, SumsAgree
          <5> QED
            BY <3>2, <4>2, <5>4 DEF SumFrom, Rest
        <4> QED
          BY <4>1, <4>2
      <3>4. g[u] = value(u) /\ g[t] = value(t)
        BY <3>1
      <3> QED
        BY <2>2, <3>3, <3>4 DEF SumFrom, Rest
    <2> QED
      BY <2>1, <2>2
  <1>9. SumsUp(f, g, s)
    BY <1>7, <1>8 DEF SumsUp
  <1> QED
    BY <1>3, <1>9

(* Lemma: SumFunction sums up.                                             *)
LEMMA SumIsTaken ==
  ASSUME NEW S, IsFiniteSet(S), NEW f \in [S -> Nat]
  PROVE  \E g : SumsUp(f, g, S) /\ SumFunction(f) = g[S]
  <1> DEFINE IsSum(g) == g = [s \in SUBSET S |-> SumFrom(f, g, s)]
             sum == CHOOSE g : IsSum(g)
  <1>1. DOMAIN f = S
    OBVIOUS
  <1>2. SumFunction(f) = sum[S]
    BY <1>1, SumExpanded
  <1>3. PICK h : SumsUp(f, h, S)
    BY SumsExist
  <1>4. IsSum(h)
    BY <1>3 DEF SumsUp
  <1> HIDE DEF IsSum
  <1>5. IsSum(sum)
    BY <1>4
  <1> HIDE DEF sum
  <1>6. sum = [s \in SUBSET S |-> SumFrom(f, sum, s)]
    BY <1>5 DEF IsSum
  <1>7. ASSUME NEW s \in SUBSET S, sum[s] # h[s] PROVE FALSE
    <2> DEFINE T == {t \in SUBSET S : sum[t] # h[t]}
    <2>1. T \in SUBSET (SUBSET S) /\ T # {}
      BY <1>7
    <2>2. PICK t \in T : \A u \in SUBSET t : u # t => u \notin T
      BY <2>1, LeastSubset
    <2>3. sum[t] = SumFrom(f, sum, t) /\ h[t] = SumFrom(f, h, t) /\ t \in SUBSET S /\ sum[t] # h[t]
      BY <1>3, <1>6, <2>2 DEF SumsUp
    <2>4. t # {}
      BY <2>3 DEF SumFrom
    <2> DEFINE u == t \ {Pick(t)}
    <2>5. u \in SUBSET t /\ u # t
      BY <2>4, PickIsElement
    <2>6. sum[u] = h[u]
      BY <2>2, <2>3, <2>5
    <2> QED
      BY <2>3, <2>4, <2>6 DEF SumFrom
  <1>8. sum[S] = h[S]
    BY <1>7
  <1> QED
    BY <1>2, <1>3, <1>8

(* Lemma: a sum is at least each of its terms, and is the only one that is *)
(* not zero if there is only one.                                          *)
LEMMA SumOfNumbers ==
  ASSUME NEW S, IsFiniteSet(S), NEW f \in [S -> Nat]
  PROVE  /\ SumFunction(f) \in Nat
         /\ \A x \in S : f[x] <= SumFunction(f)
         /\ (\A x \in S : f[x] = 0) => SumFunction(f) = 0
         /\ \A x \in S : (\A y \in S \ {x} : f[y] = 0) => SumFunction(f) = f[x]
  <1>1. PICK g : SumsUp(f, g, S) /\ SumFunction(f) = g[S]
    BY SumIsTaken
  <1> DEFINE Zero(s) == \A x \in s : f[x] = 0
             Right(s) == /\ \A x \in s : f[x] <= g[s]
                         /\ Zero(s) => g[s] = 0
                         /\ \A x \in s : Zero(s \ {x}) => g[s] = f[x]
             T == {s \in SUBSET S : ~ Right(s)}
  <1>2. ASSUME T # {} PROVE FALSE
    <2>1. T \in SUBSET (SUBSET S) /\ T # {}
      BY <1>2
    <2> HIDE DEF T
    <2>2. PICK s \in T : \A t \in SUBSET s : t # s => t \notin T
      BY <2>1, LeastSubset
    <2>3. s \in SUBSET S /\ ~ Right(s) /\ g[s] = SumFrom(f, g, s) /\ g[s] \in Nat
      BY <1>1, <2>2 DEF SumsUp, T
    <2>4. s # {}
      BY <2>3 DEF SumFrom
    <2> DEFINE c == Pick(s)
               r == s \ {c}
    <2>5. c \in s /\ r \in SUBSET s /\ r # s
      BY <2>4, PickIsElement
    <2>6. Right(r) /\ r \in SUBSET S
      BY <2>2, <2>3, <2>5 DEF T
    <2>7. g[s] = f[c] + g[r] /\ f[c] \in Nat /\ g[r] \in Nat
      BY <1>1, <2>3, <2>4, <2>5, <2>6 DEF SumFrom, SumsUp
    <2>8. s = r \cup {c}
      BY <2>5
    <2> HIDE DEF c, r
    <2>9. ASSUME NEW x \in s PROVE f[x] <= g[s] /\ f[x] \in Nat
      <3>1. f[x] \in Nat
        BY <2>3
      <3>2. x = c \/ f[x] <= g[r]
        BY <2>6, <2>8
      <3> QED
        BY <2>7, <3>1, <3>2
    <2>10. Zero(s) => g[s] = 0
      BY <2>6, <2>7, <2>8
    <2>11. ASSUME NEW x \in s, Zero(s \ {x}) PROVE g[s] = f[x]
      <3>1. CASE x = c
        <4>1. Zero(r)
          BY <2>11, <3>1 DEF r
        <4> QED
          BY <2>6, <2>7, <3>1, <4>1
      <3>2. CASE x # c
        <4>1. x \in r /\ Zero(r \ {x}) /\ f[c] = 0
          BY <2>5, <2>8, <2>11, <3>2
        <4>2. g[r] = f[x]
          BY <2>6, <4>1
        <4> QED
          BY <2>7, <4>1, <4>2
      <3> QED
        BY <3>1, <3>2
    <2> QED
      BY <2>3, <2>9, <2>10, <2>11
  <1>3. Right(S)
    BY <1>2
  <1>4. g[S] \in Nat
    BY <1>1 DEF SumsUp
  <1> QED
    BY <1>1, <1>3, <1>4

-----------------------------------------------------------------------------
(* Pricing: the order costs what was quoted, but for what it leaves out,   *)
(* for any products, options, carts, coupons and points.                   *)

PricingTypes ==
  /\ menu \in [CartProduct -> [price : UnitPrices, stock : Nat \cup {Unlimited}, onSale : BOOLEAN]]
  /\ soldOut \in SUBSET SpecOption
  /\ wallet \in [signedIn : BOOLEAN, coupon : Coupons \cup {NoCoupon}, points : PointValues]
  /\ charge \in Nat \cup {NoQuote, Refused}
  /\ charge # NoQuote => quote # NoQuote
  /\ edited \in BOOLEAN

\* The discounts never exceed the price, so that no total is cut off at zero.
QuoteIsSound ==
  quote # NoQuote =>
    /\ quote.cart \in Carts /\ quote.cart # <<>> /\ quote.coupon \in Coupons \cup {NoCoupon}
    /\ quote.subtotal \in Nat /\ quote.discount \in Nat /\ quote.points \in Nat
    /\ quote.fee \in Nat
    /\ quote.discount + quote.points <= quote.subtotal
    /\ quote.total = quote.subtotal - quote.discount - quote.points + quote.fee

\* Until something changes, the quote would be made again.
QuoteIsCurrent ==
  quote # NoQuote /\ charge = NoQuote /\ ~ edited =>
    /\ quote.subtotal = Subtotal(menu, quote.cart)
    /\ quote.discount = IF quote.coupon = NoCoupon THEN 0
                        ELSE CouponDiscount(quote.coupon, quote.subtotal,
                                            Min(LinePrices(menu, quote.cart)))
    /\ EachAvailable(menu, quote.cart) /\ OptionsFit(quote.cart)
    /\ quote.coupon \in {NoCoupon, wallet.coupon}

PricingInv == PricingTypes /\ QuoteIsSound /\ QuoteIsCurrent /\ QuoteIsKept

(* Lemma: the lines of a cart and their options.                           *)
LEMMA LinesOfCart ==
  ASSUME NEW cart \in Carts
  PROVE  /\ IsFiniteSet(DOMAIN cart) /\ (cart # <<>> => 1 \in DOMAIN cart)
         /\ \A i \in DOMAIN cart :
              /\ cart[i].product \in CartProduct /\ cart[i].quantity \in Nat \ {0}
              /\ IsFiniteSet(DOMAIN cart[i].options)
              /\ \A j \in DOMAIN cart[i].options : cart[i].options[j] \in SpecOption
  <1> DEFINE Line == [product : CartProduct, quantity : Nat \ {0}, options : Seq(SpecOption)]
  <1>1. cart \in Seq(Line)
    BY PricingAssumption
  <1> HIDE DEF Line
  <1>2. /\ DOMAIN cart = 1..Len(cart) /\ Len(cart) \in Nat /\ (cart # <<>> => Len(cart) # 0)
        /\ \A i \in DOMAIN cart : cart[i] \in Line
    BY <1>1
  <1>3. IsFiniteSet(DOMAIN cart) /\ (cart # <<>> => 1 \in DOMAIN cart)
    BY <1>2, FS_Interval
  <1>4. ASSUME NEW i \in DOMAIN cart
        PROVE  /\ cart[i].product \in CartProduct /\ cart[i].quantity \in Nat \ {0}
               /\ cart[i].options \in Seq(SpecOption)
    BY <1>2, <1>4 DEF Line
  <1>5. ASSUME NEW q \in Seq(SpecOption)
        PROVE  IsFiniteSet(DOMAIN q) /\ \A j \in DOMAIN q : q[j] \in SpecOption
    <2>1. DOMAIN q = 1..Len(q) /\ Len(q) \in Nat /\ \A j \in DOMAIN q : q[j] \in SpecOption
      OBVIOUS
    <2> QED
      BY <2>1, FS_Interval
  <1> QED
    BY <1>3, <1>4, <1>5

(* Lemma: several of a thing cost at least as much as one.                 *)
LEMMA OneCostsLess ==
  ASSUME NEW price \in Nat, NEW n \in Nat \ {0}
  PROVE  price * n \in Nat /\ price <= price * n
  <1>1. n - 1 \in Nat
    OBVIOUS
  <1>2. price * n = price * (n - 1) + price /\ price * (n - 1) \in Nat
    BY <1>1
  <1> QED
    BY <1>2

(* Lemma: the price of a line, the price of a cart, and the cheapest line. *)
LEMMA CartIsPriced ==
  ASSUME PricingTypes, NEW cart \in Carts
  PROVE  /\ Subtotal(menu, cart) \in Nat
         /\ cart # <<>> => /\ Min(LinePrices(menu, cart)) \in Nat
                           /\ Min(LinePrices(menu, cart)) <= Subtotal(menu, cart)
  <1>1. ASSUME NEW i \in DOMAIN cart
        PROVE  LinePrice(menu, cart[i]) \in Nat
    <2> DEFINE line == cart[i]
               f == [j \in DOMAIN line.options |-> Extra[line.options[j]]]
    <2>1. /\ line.product \in CartProduct /\ IsFiniteSet(DOMAIN line.options)
          /\ \A j \in DOMAIN line.options : line.options[j] \in SpecOption
      BY LinesOfCart
    <2>2. menu[line.product].price \in Nat
      BY <2>1, PricingAssumption DEF PricingTypes
    <2>3. f \in [DOMAIN line.options -> Nat]
      BY <2>1, PricingAssumption
    <2>4. SumFunction(f) \in Nat
      BY <2>1, <2>3, SumOfNumbers
    <2>5. LinePrice(menu, line) = menu[line.product].price + SumFunction(f)
      BY DEF LinePrice
    <2> HIDE DEF f, line
    <2>6. LinePrice(menu, line) \in Nat
      BY <2>2, <2>4, <2>5
    <2> QED
      BY <2>6 DEF line
  <1> DEFINE g == [i \in DOMAIN cart |-> LinePrice(menu, cart[i]) * cart[i].quantity]
  <1>2. IsFiniteSet(DOMAIN cart) /\ \A i \in DOMAIN cart : cart[i].quantity \in Nat \ {0}
    BY LinesOfCart
  <1>3. /\ g \in [DOMAIN cart -> Nat]
        /\ \A i \in DOMAIN cart : LinePrice(menu, cart[i]) <= g[i]
    BY <1>1, <1>2, OneCostsLess
  <1>4. Subtotal(menu, cart) = SumFunction(g)
    BY DEF Subtotal
  <1> HIDE DEF g
  <1>5. SumFunction(g) \in Nat /\ \A i \in DOMAIN cart : g[i] <= SumFunction(g)
    BY <1>2, <1>3, SumOfNumbers
  <1>6. ASSUME cart # <<>>
        PROVE  /\ Min(LinePrices(menu, cart)) \in Nat
               /\ Min(LinePrices(menu, cart)) <= Subtotal(menu, cart)
    <2>1. LinePrices(menu, cart) \in SUBSET Nat /\ 1 \in DOMAIN cart
      BY <1>1, <1>6, LinesOfCart DEF LinePrices
    <2>2. LinePrice(menu, cart[1]) \in LinePrices(menu, cart)
      BY <2>1 DEF LinePrices
    <2>3. /\ Min(LinePrices(menu, cart)) \in LinePrices(menu, cart)
          /\ Min(LinePrices(menu, cart)) <= LinePrice(menu, cart[1])
      BY <2>1, <2>2, FirstTime
    <2>4. LinePrice(menu, cart[1]) <= g[1] /\ g[1] <= SumFunction(g) /\ g[1] \in Nat
      BY <1>3, <1>5, <2>1
    <2>5. Min(LinePrices(menu, cart)) \in Nat /\ LinePrice(menu, cart[1]) \in Nat
      BY <2>1, <2>2, <2>3
    <2> QED
      BY <1>4, <1>5, <2>3, <2>4, <2>5
  <1> QED
    BY <1>4, <1>5, <1>6

(* Lemma: a coupon takes off no more than the price.                       *)
LEMMA DiscountFits ==
  ASSUME NEW c \in Coupons, NEW subtotal \in Nat, NEW cheapest \in Nat, cheapest <= subtotal
  PROVE  /\ CouponDiscount(c, subtotal, cheapest) \in Nat
         /\ CouponDiscount(c, subtotal, cheapest) <= subtotal
  <1>1. /\ c.kind \in {"amount_off", "percentage_off", "free_any_drink", "other"}
        /\ c.off \in Nat /\ c.least \in Nat /\ c.percent \in 0..100 /\ c.most \in Nat
    BY PricingAssumption
  <1>2. CASE c.kind = "amount_off"
    <2>1. CouponDiscount(c, subtotal, cheapest)
            = IF subtotal < c.least THEN 0 ELSE AtMost(c.off, subtotal)
      BY <1>2 DEF CouponDiscount
    <2> QED
      BY <1>1, <2>1 DEF AtMost
  <1>3. CASE c.kind = "percentage_off"
    <2> DEFINE part == (subtotal * c.percent + 50) \div 100
    <2>1. CouponDiscount(c, subtotal, cheapest) = AtMost(part, AtMost(c.most, subtotal))
      BY <1>3 DEF CouponDiscount
    <2>2. subtotal * c.percent \in Nat
      <3>1. c.percent \in Nat
        BY <1>1
      <3> QED
        BY <3>1
    <2>3. part \in Nat
      BY <2>2
    <2> HIDE DEF part
    <2> QED
      BY <1>1, <2>1, <2>3 DEF AtMost
  <1>4. CASE c.kind = "free_any_drink"
    BY <1>4 DEF CouponDiscount
  <1>5. CASE c.kind = "other"
    BY <1>5 DEF CouponDiscount
  <1> QED
    BY <1>1, <1>2, <1>3, <1>4, <1>5

(* Lemma: nor do the points.                                               *)
LEMMA PointsFit ==
  ASSUME NEW asked \in Nat, NEW owned \in Nat, NEW payable \in Nat
  PROVE  /\ PointsDiscount(asked, owned, payable) \in Nat
         /\ PointsDiscount(asked, owned, payable) <= payable
  BY DEF PointsDiscount, AtMost

(* Lemma: the cups of a product that a cart asks for.                      *)
LEMMA CupsWanted ==
  ASSUME NEW cart \in Carts, NEW p
  PROVE  /\ Wanted(cart, p) \in Nat
         /\ (\A i \in DOMAIN cart : cart[i].product # p) => Wanted(cart, p) = 0
         /\ \A i \in DOMAIN cart :
              NoRepeats(cart) /\ cart[i].product = p => Wanted(cart, p) = cart[i].quantity
  <1> DEFINE f == [i \in DOMAIN cart |-> IF cart[i].product = p THEN cart[i].quantity ELSE 0]
  <1>1. IsFiniteSet(DOMAIN cart) /\ \A i \in DOMAIN cart : cart[i].quantity \in Nat
    BY LinesOfCart
  <1>2. f \in [DOMAIN cart -> Nat]
    BY <1>1
  <1>3. Wanted(cart, p) = SumFunction(f)
    BY DEF Wanted
  <1>4. \A i \in DOMAIN cart : f[i] = IF cart[i].product = p THEN cart[i].quantity ELSE 0
    OBVIOUS
  <1> HIDE DEF f
  <1>5. /\ SumFunction(f) \in Nat
        /\ (\A i \in DOMAIN cart : f[i] = 0) => SumFunction(f) = 0
        /\ \A i \in DOMAIN cart :
             (\A k \in DOMAIN cart \ {i} : f[k] = 0) => SumFunction(f) = f[i]
    BY <1>1, <1>2, SumOfNumbers
  <1>6. ASSUME NEW i \in DOMAIN cart, NoRepeats(cart), cart[i].product = p
        PROVE  SumFunction(f) = cart[i].quantity
    <2>1. \A k \in DOMAIN cart \ {i} : f[k] = 0
      BY <1>4, <1>6 DEF NoRepeats
    <2> QED
      BY <1>4, <1>5, <1>6, <2>1
  <1> QED
    BY <1>3, <1>4, <1>5, <1>6

(* Lemma: lines that are available one by one are available together, if   *)
(* no two ask for the same product.                                        *)
LEMMA EachMeansAll ==
  ASSUME NEW cart \in Carts, NoRepeats(cart), EachAvailable(menu, cart)
  PROVE  AllAvailable(menu, cart)
  BY CupsWanted DEF EachAvailable, AllAvailable

(* Lemma: a new quote.                                                     *)
LEMMA QuoteKeeps ==
  ASSUME PricingInv, NEW cart \in Carts, NEW coupon \in Coupons \cup {NoCoupon},
         NEW points \in PointValues, NEW delivery \in BOOLEAN,
         Quote(cart, coupon, points, delivery)
  PROVE  PricingInv'
  <1> DEFINE subtotal == Subtotal(menu, cart)
             cheapest == Min(LinePrices(menu, cart))
             discount == IF coupon = NoCoupon THEN 0 ELSE CouponDiscount(coupon, subtotal, cheapest)
             used == PointsDiscount(points, wallet.points, NotNegative(subtotal - discount))
             fee == DeliveryFee(delivery, subtotal)
             total == QuotedTotal(subtotal, discount, used, fee)
  <1>1. /\ quote = NoQuote /\ cart # <<>> /\ EachAvailable(menu, cart) /\ OptionsFit(cart)
        /\ coupon \in {NoCoupon, wallet.coupon}
        /\ quote' = [cart |-> cart, coupon |-> coupon, subtotal |-> subtotal,
                     discount |-> discount, points |-> used, fee |-> fee, total |-> total]
        /\ edited' = FALSE /\ UNCHANGED <<menu, soldOut, wallet, charge>>
    BY DEF Quote
  <1>2. PricingTypes /\ charge = NoQuote
    BY <1>1 DEF PricingInv, PricingTypes
  <1>3. subtotal \in Nat /\ cheapest \in Nat /\ cheapest <= subtotal
    BY <1>1, <1>2, CartIsPriced
  <1>4. points \in Nat /\ wallet.points \in Nat
    BY <1>2, PricingAssumption DEF PricingTypes
  <1> HIDE DEF subtotal, cheapest
  <1>5. discount \in Nat /\ discount <= subtotal
    BY <1>3, DiscountFits
  <1> HIDE DEF discount
  <1>6. NotNegative(subtotal - discount) = subtotal - discount /\ subtotal - discount \in Nat
    BY <1>3, <1>5 DEF NotNegative
  <1>7. used \in Nat /\ used <= subtotal - discount
    BY <1>4, <1>6, PointsFit
  <1>8. fee \in Nat
    BY DEF DeliveryFee
  <1> HIDE DEF used, fee
  <1>9. total = subtotal - discount - used + fee
    BY <1>3, <1>5, <1>7, <1>8 DEF QuotedTotal, NotNegative
  <1> HIDE DEF total
  <1>10. /\ quote'.cart = cart /\ quote'.coupon = coupon /\ quote'.subtotal = subtotal
         /\ quote'.discount = discount /\ quote'.points = used /\ quote'.fee = fee
         /\ quote'.total = total
    BY <1>1
  <1>11. PricingTypes'
    BY <1>1, <1>2 DEF PricingTypes
  <1>12. QuoteIsSound'
    BY <1>1, <1>3, <1>5, <1>7, <1>8, <1>9, <1>10 DEF QuoteIsSound
  <1>13. QuoteIsCurrent'
    <2>1. discount = IF coupon = NoCoupon THEN 0 ELSE CouponDiscount(coupon, subtotal, cheapest)
      BY DEF discount
    <2> QED
      BY <1>1, <1>10, <2>1 DEF QuoteIsCurrent, subtotal, cheapest, OptionsFit
  <1>14. QuoteIsKept'
    BY <1>1, <1>2 DEF QuoteIsKept
  <1> QED
    BY <1>11, <1>12, <1>13, <1>14 DEF PricingInv

(* Lemma: the order that follows a quote.                                  *)
LEMMA OrderQuotedKeeps ==
  ASSUME PricingInv, OrderQuoted
  PROVE  PricingInv'
  <1> DEFINE cart == quote.cart
             coupon == quote.coupon
             subtotal == Subtotal(menu, cart)
             free == IF coupon # NoCoupon /\ coupon.kind = "free_any_drink"
                     THEN FreeDrink(menu, cart) ELSE 0
             accepted == /\ AllAvailable(menu, cart) /\ OptionsFit(cart)
                         /\ coupon \in {NoCoupon, wallet.coupon}
  <1>1. /\ quote # NoQuote /\ charge = NoQuote
        /\ charge' = IF accepted THEN ChargedTotal(subtotal, free) ELSE Refused
        /\ menu' = IF ~ accepted THEN menu
                   ELSE [p \in CartProduct |->
                          IF menu[p].stock = Unlimited THEN menu[p]
                          ELSE [menu[p] EXCEPT !.stock = @ - Wanted(cart, p)]]
        /\ wallet' = IF accepted /\ coupon # NoCoupon
                     THEN [wallet EXCEPT !.coupon = NoCoupon] ELSE wallet
        /\ UNCHANGED <<soldOut, quote, edited>>
    BY DEF OrderQuoted
  <1>2. PricingTypes /\ QuoteIsSound /\ QuoteIsCurrent
    BY DEF PricingInv
  <1>3. /\ cart \in Carts /\ cart # <<>> /\ coupon \in Coupons \cup {NoCoupon}
        /\ quote.subtotal \in Nat /\ quote.discount \in Nat /\ quote.points \in Nat
        /\ quote.fee \in Nat /\ quote.discount + quote.points <= quote.subtotal
        /\ quote.total = quote.subtotal - quote.discount - quote.points + quote.fee
    BY <1>1, <1>2 DEF QuoteIsSound
  <1>4. /\ subtotal \in Nat /\ Min(LinePrices(menu, cart)) \in Nat
        /\ Min(LinePrices(menu, cart)) <= subtotal
    BY <1>2, <1>3, CartIsPriced
  <1>5. free \in Nat /\ free <= subtotal
    BY <1>4 DEF FreeDrink
  <1>6. ChargedTotal(subtotal, free) = subtotal - free /\ subtotal - free \in Nat
    <2> HIDE DEF subtotal, free
    <2> QED
      BY <1>4, <1>5 DEF ChargedTotal, NotNegative
  <1>7. charge' \in Nat \cup {Refused} /\ charge' # NoQuote /\ (charge' = Refused <=> ~ accepted)
    <2> HIDE DEF subtotal, free, accepted
    <2> QED
      BY <1>1, <1>6, PricingAssumption
  <1>8. menu' \in [CartProduct -> [price : UnitPrices, stock : Nat \cup {Unlimited},
                                   onSale : BOOLEAN]]
    <2>1. CASE ~ accepted
      BY <1>1, <1>2, <2>1 DEF PricingTypes
    <2>2. CASE accepted
      <3>1. ASSUME NEW p \in CartProduct, menu[p].stock # Unlimited
            PROVE  menu[p].stock - Wanted(cart, p) \in Nat
        <4>1. menu[p].stock \in Nat
          BY <1>2, <3>1 DEF PricingTypes
        <4>2. Wanted(cart, p) \in Nat
          BY <1>3, CupsWanted
        <4>3. Wanted(cart, p) <= menu[p].stock
          <5>1. CASE p \in {cart[i].product : i \in DOMAIN cart}
            BY <2>2, <3>1, <5>1 DEF AllAvailable
          <5>2. CASE p \notin {cart[i].product : i \in DOMAIN cart}
            <6>1. Wanted(cart, p) = 0
              BY <1>3, <5>2, CupsWanted
            <6> QED
              BY <4>1, <6>1
          <5> QED
            BY <5>1, <5>2
        <4> QED
          BY <4>1, <4>2, <4>3
      <3>2. menu' = [p \in CartProduct |->
                      IF menu[p].stock = Unlimited THEN menu[p]
                      ELSE [menu[p] EXCEPT !.stock = menu[p].stock - Wanted(cart, p)]]
        BY <1>1, <2>2
      <3>3. ASSUME NEW p \in CartProduct
            PROVE  menu'[p] \in [price : UnitPrices, stock : Nat \cup {Unlimited},
                                 onSale : BOOLEAN]
        <4>1. menu[p] \in [price : UnitPrices, stock : Nat \cup {Unlimited}, onSale : BOOLEAN]
          BY <1>2 DEF PricingTypes
        <4>2. menu'[p] = IF menu[p].stock = Unlimited THEN menu[p]
                         ELSE [menu[p] EXCEPT !.stock = menu[p].stock - Wanted(cart, p)]
          BY <3>2
        <4> HIDE DEF cart
        <4> QED
          BY <3>1, <4>1, <4>2
      <3> QED
        BY <3>2, <3>3
    <2> QED
      BY <2>1, <2>2
  <1>9. wallet' \in [signedIn : BOOLEAN, coupon : Coupons \cup {NoCoupon}, points : PointValues]
    <2> HIDE DEF accepted, coupon
    <2> QED
      BY <1>1, <1>2 DEF PricingTypes
  <1>10. PricingTypes'
    BY <1>1, <1>2, <1>7, <1>8, <1>9 DEF PricingTypes
  <1>11. QuoteIsSound' /\ QuoteIsCurrent'
    BY <1>1, <1>2, <1>7 DEF QuoteIsSound, QuoteIsCurrent
  <1>12. QuoteIsKept'
    <2> SUFFICES ASSUME ~ edited
                 PROVE  IF charge' = Refused THEN ~ NoRepeats(cart)
                        ELSE LET lost == IF coupon = NoCoupon \/ coupon.kind = "free_any_drink"
                                         THEN 0 ELSE quote.discount
                             IN quote.total = charge' - lost - quote.points + quote.fee
      BY <1>1 DEF QuoteIsKept
    <2>1. /\ quote.subtotal = subtotal /\ EachAvailable(menu, cart) /\ OptionsFit(cart)
          /\ coupon \in {NoCoupon, wallet.coupon}
          /\ quote.discount = IF coupon = NoCoupon THEN 0
                              ELSE CouponDiscount(coupon, subtotal, Min(LinePrices(menu, cart)))
      BY <1>1, <1>2 DEF QuoteIsCurrent
    <2>2. CASE charge' = Refused
      <3>1. ~ AllAvailable(menu, cart)
        BY <1>7, <2>1, <2>2
      <3> QED
        BY <1>3, <2>1, <2>2, <3>1, EachMeansAll
    <2>3. CASE charge' # Refused
      <3>1. charge' = subtotal - free
        BY <1>1, <1>6, <1>7, <2>3
      <3>2. CASE coupon = NoCoupon
        <4>1. free = 0 /\ quote.discount = 0
          BY <2>1, <3>2
        <4> HIDE DEF free, subtotal
        <4> QED
          BY <1>3, <1>4, <2>1, <2>3, <3>1, <3>2, <4>1
      <3>3. CASE coupon # NoCoupon /\ coupon.kind = "free_any_drink"
        <4>1. free = quote.discount
          BY <2>1, <3>3 DEF FreeDrink, CouponDiscount
        <4> HIDE DEF free, subtotal
        <4> QED
          BY <1>3, <1>4, <2>1, <2>3, <3>1, <3>3, <4>1
      <3>4. CASE coupon # NoCoupon /\ coupon.kind # "free_any_drink"
        <4>1. free = 0
          BY <3>4
        <4> HIDE DEF free, subtotal
        <4> QED
          BY <1>3, <1>4, <2>1, <2>3, <3>1, <3>4, <4>1
      <3> QED
        BY <3>2, <3>3, <3>4
    <2> QED
      BY <2>2, <2>3
  <1> QED
    BY <1>10, <1>11, <1>12 DEF PricingInv

(* Lemma: what changes between quote and order.                            *)
LEMMA MeanwhileKeeps ==
  ASSUME PricingInv,
         \/ (\E p \in CartProduct : EditMenu(p)) \/ (\E o \in SpecOption : EditOption(o))
         \/ SpendCoupon
  PROVE  PricingInv'
  <1>1. PricingTypes /\ QuoteIsSound
    BY DEF PricingInv
  <1>2. edited' = TRUE /\ UNCHANGED <<quote, charge>> /\ charge = NoQuote
    BY DEF EditMenu, EditOption, SpendCoupon
  <1>3. PricingTypes'
    <2>1. ASSUME NEW p \in CartProduct, EditMenu(p)
          PROVE  PricingTypes'
      <3>1. PICK row \in [price : UnitPrices, stock : Stocks, onSale : BOOLEAN] :
              menu' = [menu EXCEPT ![p] = row]
        BY <2>1 DEF EditMenu
      <3>2. row \in [price : UnitPrices, stock : Nat \cup {Unlimited}, onSale : BOOLEAN]
        BY PricingAssumption
      <3> QED
        BY <1>1, <1>2, <2>1, <3>1, <3>2 DEF EditMenu, PricingTypes
    <2>2. ASSUME NEW o \in SpecOption, EditOption(o)
          PROVE  PricingTypes'
      BY <1>1, <1>2, <2>2 DEF EditOption, PricingTypes
    <2>3. CASE SpendCoupon
      BY <1>1, <1>2, <2>3 DEF SpendCoupon, PricingTypes
    <2> QED
      BY <2>1, <2>2, <2>3
  <1>4. QuoteIsSound' /\ QuoteIsCurrent' /\ QuoteIsKept'
    BY <1>1, <1>2 DEF QuoteIsSound, QuoteIsCurrent, QuoteIsKept
  <1> QED
    BY <1>3, <1>4 DEF PricingInv

(* Lemma: these facts are an inductive invariant of pricing.              *)
LEMMA PricingInvAlways == PricingSpec => []PricingInv
  <1>1. PricingInit => PricingInv
    <2> SUFFICES ASSUME PricingInit PROVE PricingInv
      OBVIOUS
    <2>1. quote = NoQuote /\ charge = NoQuote /\ edited = FALSE /\ soldOut \in SUBSET SpecOption
      BY DEF PricingInit
    <2>2. menu \in [CartProduct -> [price : UnitPrices, stock : Nat \cup {Unlimited},
                                    onSale : BOOLEAN]]
      BY PricingAssumption DEF PricingInit
    <2>3. wallet \in [signedIn : BOOLEAN, coupon : Coupons \cup {NoCoupon}, points : PointValues]
      <3>1. 0 \in PointValues
        BY PricingAssumption
      <3> QED
        BY <3>1 DEF PricingInit
    <2> QED
      BY <2>1, <2>2, <2>3 DEF PricingInv, PricingTypes, QuoteIsSound, QuoteIsCurrent, QuoteIsKept
  <1>2. PricingInv /\ [PricingNext]_pricingVars => PricingInv'
    <2>1. CASE UNCHANGED pricingVars
      BY <2>1 DEF pricingVars, PricingInv, PricingTypes, QuoteIsSound, QuoteIsCurrent, QuoteIsKept,
                  OptionsFit
    <2> QED
      BY <2>1, QuoteKeeps, OrderQuotedKeeps, MeanwhileKeeps DEF PricingNext
  <1> QED
    BY <1>1, <1>2, PTL DEF PricingSpec

(* Theorem: products, options, wallet, quote and charge are typed.         *)
THEOREM PricingTypeCorrect == PricingSpec => []PricingTypeOK
  <1>1. PricingInv => PricingTypeOK
    <2> SUFFICES ASSUME PricingInv PROVE PricingTypeOK
      OBVIOUS
    <2>1. PricingTypes /\ QuoteIsSound
      BY DEF PricingInv
    <2>2. quote # NoQuote => quote.total \in Nat /\ quote.subtotal \in Nat
      BY <2>1 DEF QuoteIsSound
    <2>3. charge = NoQuote \/ charge = Refused \/ charge \in Nat
      BY <2>1 DEF PricingTypes
    <2> QED
      BY <2>1, <2>2, <2>3 DEF PricingTypes, PricingTypeOK
  <1> QED
    BY <1>1, PricingInvAlways, PTL

(* Theorem: an order made from a quote, before anything else changes,      *)
(* costs the quote but for the fee, the points and the coupons that        *)
(* create_order() leaves out, and is refused only for repeated products.   *)
THEOREM QuoteIsKeptAlways == PricingSpec => []QuoteIsKept
  <1>1. PricingInv => QuoteIsKept
    BY DEF PricingInv
  <1> QED
    BY <1>1, PricingInvAlways, PTL
=============================================================================
