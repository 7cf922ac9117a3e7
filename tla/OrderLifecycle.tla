--------------------------- MODULE OrderLifecycle ---------------------------
(***************************************************************************)
(* The life of an order in the database: creation under an idempotency     *)
(* key, deduction of stock, reservation of a pickup slot, spending of a    *)
(* coupon, payment through the WeChat callback, automatic cancellation,    *)
(* reminder and activation of reservations.                                *)
(*                                                                         *)
(* Every action is one committed database transaction.  The code makes     *)
(* its transactions atomic with row locks taken before a row is read       *)
(* (FOR UPDATE on idempotency keys, slots, products, coupons and orders)   *)
(* and, where it reads orders without a lock, with the optimistic version  *)
(* column of orders.  A transaction that fails is rolled back and is a     *)
(* stuttering step.                                                        *)
(***************************************************************************)
EXTENDS Naturals, FiniteSets

CONSTANTS
  MaxOrders,     \* bound: how many orders are ever created
  Product, Slot, Coupon, User, Key,
  MaxQty,        \* bound: cups of one product in one order
  Requests,      \* the order payloads that clients send
  Owner,         \* the user each coupon was issued to
  InitialStock,  \* products.stock_quantity at the start
  SlotCapacity,  \* settings.reservation_slot_capacity
  BatchLimit,    \* the limit argument of cancel_stale_pending_orders
  Guest, NoSlot, NoCoupon, NoRequest

Order   == 1..MaxOrders
NoOrder == 0

\* pos_cash: a POS order paid on the spot; pos_later: any other POS channel.
Channel == {"app", "pos_cash", "pos_later"}

Request == [user    : User \cup {Guest},
            cups    : [Product -> 0..MaxQty],
            slot    : Slot \cup {NoSlot},
            coupon  : Coupon \cup {NoCoupon},
            channel : Channel]

ASSUME BoundsAssumption ==
  /\ MaxOrders \in Nat
  /\ MaxQty \in Nat
  /\ SlotCapacity \in Nat
  /\ BatchLimit \in Nat

ASSUME ValuesAssumption ==
  /\ InitialStock \in [Product -> Nat]
  /\ Owner \in [Coupon -> User]
  /\ Guest \notin User /\ NoSlot \notin Slot /\ NoCoupon \notin Coupon

\* The POS route builds its payload without scheduled_at and coupon_id.
ASSUME RequestsAssumption ==
  /\ Requests \subseteq Request
  /\ NoRequest \notin Requests
  /\ \A r \in Requests :
       r.channel # "app" => r.slot = NoSlot /\ r.coupon = NoCoupon

VARIABLES
  status,      \* orders.status; "absent" before the row exists
  payment,     \* orders.payment_status
  request,     \* the payload an order was created from: its items, user, coupon
  slotOf,      \* orders.reservation_slot_id; is_scheduled says it is not NULL
  reminded,    \* orders whose reminder_sent_at is set
  cancelLog,   \* orders with an "order.auto_cancel" row in audit_logs
  stock,       \* products.stock_quantity
  inventory,   \* products.inventory_status
  couponUse,   \* coupons.used_in_order_id; NoOrder while the coupon is active
  reserved,    \* reservation_slots.reserved_count; 0 also before the row exists
  snapshot,    \* the order a key's response_snapshot describes
  answers,     \* the orders clients have been answered with, for each key
  recorded,    \* orders with a row in payment_records
  trade,       \* WeChat's own view of an order number
  phase,       \* where the clock stands for the scheduled time of a slot
  cutoff       \* orders 1..cutoff are older than the pending timeout

orderVars == <<status, payment, request, slotOf, reminded, cancelLog>>
shopVars  == <<stock, inventory, couponUse, reserved>>
keyVars   == <<snapshot, answers>>
payVars   == <<recorded, trade>>
timeVars  == <<phase, cutoff>>
vars == <<orderVars, shopVars, keyVars, payVars, timeVars>>

Status == {"absent", "pending_payment", "paid", "in_production", "cancelled"}

TypeOK ==
  /\ status \in [Order -> Status]
  /\ payment \in [Order -> {"pending", "paid"}]
  /\ request \in [Order -> Requests \cup {NoRequest}]
  /\ slotOf \in [Order -> Slot \cup {NoSlot}]
  /\ reminded \subseteq Order
  /\ cancelLog \subseteq Order
  /\ stock \in [Product -> Nat]
  /\ inventory \in [Product -> {"in_stock", "sold_out"}]
  /\ couponUse \in [Coupon -> Order \cup {NoOrder}]
  /\ reserved \in [Slot -> Nat]
  /\ snapshot \in [Key -> Order \cup {NoOrder}]
  /\ answers \in [Key -> SUBSET Order]
  /\ recorded \subseteq Order
  /\ trade \in [Order -> {"none", "open", "paid"}]
  /\ phase \in [Slot -> {"open", "remind", "due"}]
  /\ cutoff \in 0..MaxOrders

Init ==
  /\ status = [o \in Order |-> "absent"]
  /\ payment = [o \in Order |-> "pending"]
  /\ request = [o \in Order |-> NoRequest]
  /\ slotOf = [o \in Order |-> NoSlot]
  /\ reminded = {}
  /\ cancelLog = {}
  /\ stock = InitialStock
  /\ inventory = [p \in Product |->
                    IF InitialStock[p] = 0 THEN "sold_out" ELSE "in_stock"]
  /\ couponUse = [c \in Coupon |-> NoOrder]
  /\ reserved = [s \in Slot |-> 0]
  /\ snapshot = [k \in Key |-> NoOrder]
  /\ answers = [k \in Key |-> {}]
  /\ recorded = {}
  /\ trade = [o \in Order |-> "none"]
  /\ phase = [s \in Slot |-> "open"]
  /\ cutoff = 0

-----------------------------------------------------------------------------
(* What the rows say                                                       *)

Created == {o \in Order : status[o] # "absent"}

\* The cups of product p in the orders S, one element for each cup.
Cups(p, S) == {c \in S \X (1..MaxQty) : c[2] <= request[c[1]].cups[p]}

Holders(s) == {o \in Order : slotOf[o] = s}

\* An anonymous order may name a coupon, but nothing is deducted or spent.
UsesCoupon(r) == r.coupon # NoCoupon /\ r.user # Guest

\* What request_hash covers: the POS channel and the user are not in it.
Fingerprint(r) == <<r.cups, r.slot, r.coupon>>

-----------------------------------------------------------------------------
(* POST /orders and POST /admin/orders                                     *)

SlotBookableOffByOne(s) ==
  s # NoSlot => phase[s] # "due" /\ reserved[s] <= SlotCapacity

\* ReservationService.plan: a seat is left.  The time was ahead of the clock by the
\* lead time when the request was planned; the commit may come a little later.
SlotBookable(s) ==
  s # NoSlot => phase[s] # "due" /\ reserved[s] < SlotCapacity

Purchasable(p, n) == inventory[p] = "in_stock" /\ stock[p] >= n

CouponUsableByOwner(r) == Owner[r.coupon] = r.user

CouponUsable(r) ==
  couponUse[r.coupon] = NoOrder /\ Owner[r.coupon] = r.user

Accepts(r) ==
  /\ SlotBookable(r.slot)
  /\ \A p \in Product : r.cups[p] > 0 => Purchasable(p, r.cups[p])
  /\ UsesCoupon(r) => CouponUsable(r)

PaidOnCreation(r) == r.channel = "pos_cash"

FirstAbsent(o) ==
  status[o] = "absent" /\ \A q \in 1..(o - 1) : status[q] # "absent"

\* A connection lost after the commit costs the client the answer, not the order.
AnswerOrLose(k, o) ==
  \/ answers' = [answers EXCEPT ![k] = @ \cup {o}]
  \/ answers' = answers

InsertOrder(o, r) ==
  /\ status' = [status EXCEPT ![o] =
                  IF PaidOnCreation(r) THEN "paid" ELSE "pending_payment"]
  /\ payment' = [payment EXCEPT ![o] =
                  IF PaidOnCreation(r) THEN "paid" ELSE "pending"]
  /\ request' = [request EXCEPT ![o] = r]
  /\ slotOf' = [slotOf EXCEPT ![o] = r.slot]

DeductStock(r) ==
  /\ stock' = [p \in Product |-> stock[p] - r.cups[p]]
  /\ inventory' = [p \in Product |->
       IF r.cups[p] > 0 /\ stock[p] = r.cups[p] THEN "sold_out" ELSE inventory[p]]

ReserveSlot(s) ==
  reserved' = [t \in Slot |-> IF t = s THEN reserved[t] + 1 ELSE reserved[t]]

SpendCoupon(o, r) ==
  couponUse' = IF UsesCoupon(r) THEN [couponUse EXCEPT ![r.coupon] = o]
                                ELSE couponUse

\* The whole of create_order for a key without a stored answer.
CreateOrderUnder(k, r) ==
  /\ Accepts(r)
  /\ \E o \in Order :
       /\ FirstAbsent(o)
       /\ InsertOrder(o, r)
       /\ DeductStock(r)
       /\ ReserveSlot(r.slot)
       /\ SpendCoupon(o, r)
       /\ snapshot' = [snapshot EXCEPT ![k] = o]
       /\ AnswerOrLose(k, o)
  /\ UNCHANGED <<reminded, cancelLog, payVars, timeVars>>

CreateOrderAlways(k, r) == CreateOrderUnder(k, r)

CreateOrder(k, r) ==
  /\ snapshot[k] = NoOrder
  /\ CreateOrderUnder(k, r)

\* A retry under a key that has its answer: same payload, same answer.
ReplayOrder(k, r) ==
  /\ snapshot[k] # NoOrder
  /\ Fingerprint(request[snapshot[k]]) = Fingerprint(r)
  /\ answers' = [answers EXCEPT ![k] = @ \cup {snapshot[k]}]
  /\ UNCHANGED <<orderVars, shopVars, snapshot, payVars, timeVars>>

-----------------------------------------------------------------------------
(* Payment                                                                 *)

\* initiate_wechat_jsapi_payment and initiate_wechat_native_payment.
InitiatePayment(o) ==
  /\ status[o] = "pending_payment"
  /\ trade[o] = "none"
  /\ trade' = [trade EXCEPT ![o] = "open"]
  /\ UNCHANGED <<orderVars, shopVars, keyVars, recorded, timeVars>>

\* The customer pays at WeChat, which knows nothing of what the shop decided since.
CustomerPays(o) ==
  /\ trade[o] = "open"
  /\ trade' = [trade EXCEPT ![o] = "paid"]
  /\ UNCHANGED <<orderVars, shopVars, keyVars, recorded, timeVars>>

NotifyUnpaidTrade(o) ==
  /\ trade[o] # "none"
  /\ status' = [status EXCEPT ![o] = "paid"]
  /\ payment' = [payment EXCEPT ![o] = "paid"]
  /\ recorded' = recorded \cup {o}
  /\ UNCHANGED <<request, slotOf, reminded, cancelLog, shopVars, keyVars, trade,
                 timeVars>>

NotifyPaymentOnly(o) ==
  /\ trade[o] = "paid"
  /\ payment' = [payment EXCEPT ![o] = "paid"]
  /\ recorded' = recorded \cup {o}
  /\ UNCHANGED <<status, request, slotOf, reminded, cancelLog, shopVars, keyVars,
                 trade, timeVars>>

NotifyIfPending(o) ==
  /\ trade[o] = "paid" /\ status[o] = "pending_payment"
  /\ status' = [status EXCEPT ![o] = "paid"]
  /\ payment' = [payment EXCEPT ![o] = "paid"]
  /\ recorded' = recorded \cup {o}
  /\ UNCHANGED <<request, slotOf, reminded, cancelLog, shopVars, keyVars, trade,
                 timeVars>>

\* handle_wechat_notification; WeChat repeats the call until it is acknowledged,
\* and a repetition may arrive at any later time.
Notify(o) ==
  /\ trade[o] = "paid"
  /\ status' = [status EXCEPT ![o] = "paid"]
  /\ payment' = [payment EXCEPT ![o] = "paid"]
  /\ recorded' = recorded \cup {o}
  /\ UNCHANGED <<request, slotOf, reminded, cancelLog, shopVars, keyVars, trade,
                 timeVars>>

-----------------------------------------------------------------------------
(* Periodic tasks                                                          *)

StaleUnfinished ==
  {o \in Order : o <= cutoff /\ status[o] \in {"pending_payment", "paid"}}

StaleUnpaid == {o \in Order : o <= cutoff /\ payment[o] = "pending"}

StalePending ==
  {o \in Order : /\ o <= cutoff
                 /\ status[o] = "pending_payment"
                 /\ payment[o] = "pending"}

SmallerBatches(S) == {T \in SUBSET S : T # {} /\ Cardinality(T) < BatchLimit}

\* LIMIT BatchLimit.  Some of the orders a run selected may be paid by the time it
\* has their locks; those are skipped.
Batches(S) == {T \in SUBSET S : T # {} /\ Cardinality(T) <= BatchLimit}

\* InventoryService.restore_from_order_items, for every order of the batch.
ReturnStock(S) ==
  stock' = [p \in Product |-> stock[p] + Cardinality(Cups(p, S))]

ReopenInventory(S) ==
  inventory' = [p \in Product |->
    IF Cups(p, S) # {} THEN "in_stock" ELSE inventory[p]]

\* ReservationService.release_slot: the count never goes below zero.
ReleaseSlots(S) ==
  reserved' = [s \in Slot |->
    LET n == Cardinality(Holders(s) \cap S)
    IN  IF reserved[s] < n THEN 0 ELSE reserved[s] - n]

\* cancel_pending_order for each order of S, in one transaction.  The coupon
\* of the order stays spent.
CancelBatch(S) ==
  /\ status' = [o \in Order |-> IF o \in S THEN "cancelled" ELSE status[o]]
  /\ slotOf' = [o \in Order |-> IF o \in S THEN NoSlot ELSE slotOf[o]]
  /\ cancelLog' = cancelLog \cup S
  /\ ReturnStock(S)
  /\ ReopenInventory(S)
  /\ ReleaseSlots(S)
  /\ UNCHANGED <<payment, request, reminded, couponUse, keyVars, payVars, timeVars>>

CancelStale == \E S \in Batches(StalePending) : CancelBatch(S)

\* ReservationService.send_due_reminders
\* A run marks orders that were due when it read them; by the time it commits,
\* their hour may have come.
Remindable ==
  {o \in Order \ reminded : /\ slotOf[o] # NoSlot /\ phase[slotOf[o]] # "open"
                            /\ status[o] = "paid" /\ payment[o] = "paid"}

SendReminders ==
  /\ \E S \in SUBSET Remindable : S # {} /\ reminded' = reminded \cup S
  /\ UNCHANGED <<status, payment, request, slotOf, cancelLog, shopVars, keyVars,
                 payVars, timeVars>>

DueRemindedOrders ==
  {o \in reminded : /\ slotOf[o] # NoSlot /\ phase[slotOf[o]] = "due"
                    /\ status[o] = "paid" /\ payment[o] = "paid"}

\* ReservationService.activate_due_orders
DueOrders ==
  {o \in Order : /\ slotOf[o] # NoSlot /\ phase[slotOf[o]] = "due"
                 /\ status[o] = "paid" /\ payment[o] = "paid"}

\* All the orders of S, or none: an order that changed since it was read fails the
\* version check and with it the whole batch.
ActivateBatch(S) ==
  /\ S # {}
  /\ status' = [o \in Order |-> IF o \in S THEN "in_production" ELSE status[o]]
  /\ UNCHANGED <<payment, request, slotOf, reminded, cancelLog, shopVars, keyVars,
                 payVars, timeVars>>

ActivateDue == \E S \in SUBSET DueOrders : ActivateBatch(S)

-----------------------------------------------------------------------------
(* The merchant and the clock                                              *)

\* InventoryService.update_product_inventory
SetInventoryStatus(p, s) ==
  /\ inventory[p] # s
  /\ inventory' = [inventory EXCEPT ![p] = s]
  /\ UNCHANGED <<orderVars, stock, couponUse, reserved, keyVars, payVars, timeVars>>

\* One more order, the oldest that was not, is past order_pending_timeout_minutes.
OrderExpires ==
  /\ cutoff + 1 \in Created
  /\ cutoff' = cutoff + 1
  /\ UNCHANGED <<orderVars, shopVars, keyVars, payVars, phase>>

\* The clock enters the reminder window of a slot, then reaches its time.
SlotTime(s) ==
  /\ phase[s] # "due"
  /\ phase' = [phase EXCEPT ![s] = IF @ = "open" THEN "remind" ELSE "due"]
  /\ UNCHANGED <<orderVars, shopVars, keyVars, payVars, cutoff>>

-----------------------------------------------------------------------------
Next ==
  \/ \E k \in Key, r \in Requests : CreateOrder(k, r) \/ ReplayOrder(k, r)
  \/ \E o \in Order : InitiatePayment(o) \/ CustomerPays(o) \/ Notify(o)
  \/ CancelStale
  \/ SendReminders
  \/ ActivateDue
  \/ \E p \in Product, s \in {"in_stock", "sold_out"} : SetInventoryStatus(p, s)
  \/ OrderExpires
  \/ \E s \in Slot : SlotTime(s)

Spec == Init /\ [][Next]_vars

(***************************************************************************)
(* Celery beat runs the tasks again and again; an activation run takes     *)
(* every order that is due, so no due order is passed over for ever.       *)
(* WeChat repeats a notification until it is acknowledged, and time        *)
(* passes.  Customers and merchants owe nothing.                           *)
(***************************************************************************)
Fairness ==
  /\ WF_vars(CancelStale)
  /\ \A o \in Order : WF_vars(\E S \in SUBSET DueOrders : o \in S /\ ActivateBatch(S))
  /\ WF_vars(OrderExpires)
  /\ \A o \in Order : WF_vars(Notify(o))
  /\ \A s \in Slot : WF_vars(SlotTime(s))

FairSpec == Spec /\ Fairness

-----------------------------------------------------------------------------
(* Safety                                                                  *)

(* No cup is created or lost: what create_order took and no automatic      *)
(* cancellation gave back is exactly what the shelf lacks, whatever the    *)
(* order of creations, cancellation batches and late payments.             *)
StockConserved ==
  \A p \in Product :
    stock[p] + Cardinality(Cups(p, Created \ cancelLog)) = InitialStock[p]

(* reserved_count, which _reserve_slot and release_slot move by one, is    *)
(* the number of orders that point at the slot, and never passes capacity. *)
SlotAccounting ==
  \A s \in Slot : /\ reserved[s] = Cardinality(Holders(s))
                  /\ reserved[s] <= SlotCapacity

(* A coupon gives its discount to one order: every discounted order holds  *)
(* its coupon, and a spent coupon is held by an order of its owner.        *)
CouponSpentOnce ==
  /\ \A o \in Created : UsesCoupon(request[o]) => couponUse[request[o].coupon] = o
  /\ \A c \in Coupon : couponUse[c] # NoOrder =>
       /\ couponUse[c] \in Created
       /\ request[couponUse[c]].coupon = c
       /\ request[couponUse[c]].user = Owner[c]

(* Retries under an idempotency key buy once: every order is the stored    *)
(* answer of exactly one key, and no key is answered with another order.   *)
OneOrderPerKey ==
  /\ \A o \in Created : \E k \in Key : snapshot[k] = o
  /\ \A k, l \in Key : snapshot[k] = snapshot[l] => k = l \/ snapshot[k] = NoOrder
  /\ \A k \in Key : snapshot[k] # NoOrder => snapshot[k] \in Created
  /\ \A k \in Key : answers[k] \subseteq {snapshot[k]}

(* An order is paid only with money behind it: WeChat took it and the      *)
(* record is there, or the clerk did.  A cancelled order is an unpaid one  *)
(* whose seat is free and whose cancellation is on record.                 *)
PaymentsBacked ==
  /\ \A o \in Order : payment[o] = "paid" =>
       PaidOnCreation(request[o]) \/ (trade[o] = "paid" /\ o \in recorded)
  /\ \A o \in Order : status[o] = "cancelled" =>
       payment[o] = "pending" /\ slotOf[o] = NoSlot /\ o \in cancelLog

(* The columns of one order agree, whichever transactions touched them:    *)
(* money and kitchen never disagree about an order, a row that was auto-   *)
(* cancelled holds no seat and is never pending again, and nothing points  *)
(* at a row before it exists.                                              *)
RowsAgree ==
  /\ \A o \in Order : payment[o] = "paid" <=> status[o] \in {"paid", "in_production"}
  /\ \A o \in cancelLog : slotOf[o] = NoSlot /\ status[o] # "pending_payment"
  /\ \A o \in Order : request[o] = NoRequest <=> status[o] = "absent"
  /\ \A o \in Order : status[o] = "absent" =>
       slotOf[o] = NoSlot /\ o \notin cancelLog /\ trade[o] = "none"

(* Once paid, an order is never cancelled nor unpaid again, whichever of   *)
(* the callback and the cancellation batch comes first.                    *)
PaidSticks ==
  [][\A o \in Order : payment[o] = "paid" =>
       payment'[o] = "paid" /\ status'[o] \in {"paid", "in_production"}]_vars

-----------------------------------------------------------------------------
(* Liveness, under FairSpec                                                *)

(* An order does not wait for payment for ever: the cleanup task reaches   *)
(* it although each run takes at most BatchLimit orders.                   *)
PendingResolved ==
  \A o \in Order : status[o] = "pending_payment" ~> status[o] # "pending_payment"

(* A paid reservation goes into production when its time has come, even if *)
(* payment arrives after that time or the callback is repeated.            *)
ReservationProduced ==
  \A o \in Order :
    (status[o] = "paid" /\ slotOf[o] # NoSlot) ~> status[o] = "in_production"

(* Money that WeChat took ends in a paid order, also when the order was    *)
(* cancelled while the customer was paying.                                *)
MoneyHonoured == \A o \in Order : trade[o] = "paid" ~> payment[o] = "paid"

-----------------------------------------------------------------------------
(* What the documents say and the code does not keep                       *)

(* The concurrency audit: selling more than the stock is fixed.  The cups  *)
(* of the paid orders never exceed what the shop had.                      *)
NeverOversold ==
  \A p \in Product :
    Cardinality(Cups(p, {o \in Created : payment[o] = "paid"})) <= InitialStock[p]
=============================================================================
