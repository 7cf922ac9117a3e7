------------------------- MODULE OrderTransactions -------------------------
(***************************************************************************)
(* The transactions behind OrderLifecycle, one SQL statement at a time:    *)
(* which rows each locks and in which order, what it read before it had    *)
(* the lock, and what another transaction may do in between.  PostgreSQL   *)
(* runs at READ COMMITTED: a statement sees what was committed before it,  *)
(* FOR UPDATE waits for the row and then sees its latest version, and the  *)
(* writes of a transaction become visible together when it commits.        *)
(***************************************************************************)
EXTENDS OrderLifecycle

CONSTANTS
  Client,    \* sessions serving POST /orders and POST /admin/orders
  Sweeper,   \* sessions running cancel_stale_pending_orders
  Callback,  \* sessions serving the WeChat notification
  Batcher,   \* sessions running send_due_reminders or activate_due_orders
  Nobody

Tx == Client \cup Sweeper \cup Callback \cup Batcher

\* A session runs one of the four at a time, and is named for it.
ASSUME SessionsAssumption ==
  /\ Nobody \notin Tx
  /\ Client \cap (Sweeper \cup Callback \cup Batcher) = {}
  /\ Sweeper \cap (Callback \cup Batcher) = {}
  /\ Callback \cap Batcher = {}

VARIABLES
  owner,     \* the transaction that holds the lock of a row
  step,      \* what a transaction does next
  asked,     \* the key and the request a client session is serving
  todo,      \* products whose rows the transaction has still to lock
  batch,     \* orders a transaction of a task or callback has still to handle
  handled,   \* orders it has handled
  view,      \* what a transaction read, and then wrote, in the rows it locked
  outdated,  \* orders that changed after a batcher read them: their version moved on
  slotRows   \* slots that have their row in reservation_slots

sessionVars == <<owner, step, asked, todo, batch, handled, view, outdated, slotRows>>
txVars == <<vars, sessionVars>>

KeyRow(k)     == <<"key", k>>
SlotRow(s)    == <<"slot", s>>
ProductRow(p) == <<"product", p>>
CouponRow(c)  == <<"coupon", c>>
OrderRow(o)   == <<"order", o>>

Row == {KeyRow(k) : k \in Key} \cup {SlotRow(s) : s \in Slot}
         \cup {ProductRow(p) : p \in Product} \cup {CouponRow(c) : c \in Coupon}
         \cup {OrderRow(o) : o \in Order}

Step == {"idle", "key", "slot", "newslot", "products", "orders", "restore",
         "flush_remind", "flush_activate", "commit"}

NothingAsked == <<"none">>
NothingRead  == [row \in {} |-> 0]

TxTypeOK ==
  /\ TypeOK
  /\ owner \in [Row -> Tx \cup {Nobody}]
  /\ step \in [Tx -> Step]
  /\ asked \in [Client -> (Key \X Requests) \cup {NothingAsked}]
  /\ todo \in [Tx -> SUBSET Product]
  /\ batch \in [Tx -> SUBSET Order]
  /\ handled \in [Tx -> SUBSET Order]
  /\ DOMAIN view = Tx
  /\ \A t \in Tx : DOMAIN view[t] \subseteq Row
  /\ outdated \in [Batcher -> SUBSET Order]
  /\ slotRows \subseteq Slot

TxInit ==
  /\ Init
  /\ owner = [row \in Row |-> Nobody]
  /\ step = [t \in Tx |-> "idle"]
  /\ asked = [t \in Client |-> NothingAsked]
  /\ todo = [t \in Tx |-> {}]
  /\ batch = [t \in Tx |-> {}]
  /\ handled = [t \in Tx |-> {}]
  /\ view = [t \in Tx |-> NothingRead]
  /\ outdated = [b \in Batcher |-> {}]
  /\ slotRows = {}

-----------------------------------------------------------------------------
(* Row locks                                                               *)

Available(t, row) == owner[row] \in {Nobody, t}

LockUnlocked(t, row) == owner' = [owner EXCEPT ![row] = t]

\* FOR UPDATE, and the row lock an UPDATE or INSERT takes: wait, then hold to the end.
Lock(t, row) ==
  /\ Available(t, row)
  /\ owner' = [owner EXCEPT ![row] = t]

Reads(t, row, value) ==
  view' = [view EXCEPT ![t] =
             [r \in DOMAIN @ \cup {row} |-> IF r = row THEN value ELSE @[r]]]

\* COMMIT and ROLLBACK release the locks; the session is new for the next caller.
EndTransaction(t) ==
  /\ owner' = [row \in Row |-> IF owner[row] = t THEN Nobody ELSE owner[row]]
  /\ step' = [step EXCEPT ![t] = "idle"]
  /\ asked' = [c \in Client |-> IF c = t THEN NothingAsked ELSE asked[c]]
  /\ todo' = [todo EXCEPT ![t] = {}]
  /\ batch' = [batch EXCEPT ![t] = {}]
  /\ handled' = [handled EXCEPT ![t] = {}]
  /\ view' = [view EXCEPT ![t] = NothingRead]

\* The version column of the orders S moves on under whoever read them, except t.
MoveVersions(t, S) ==
  outdated' = [b \in Batcher |->
                 IF b = t THEN {} ELSE outdated[b] \cup (S \cap batch[b])]

\* An error, a lost connection, a killed process, or PostgreSQL's choice of a victim.
Rollback(t) ==
  /\ step[t] # "idle"
  /\ EndTransaction(t)
  /\ MoveVersions(t, {})
  /\ UNCHANGED <<vars, slotRows>>

ProductAsRead(t, p) == view[t][ProductRow(p)]

-----------------------------------------------------------------------------
(* create_order                                                            *)

AskedKey(t)     == asked[t][1]
AskedRequest(t) == asked[t][2]

BeginCreate(t, k, r) ==
  /\ step[t] = "idle"
  /\ step' = [step EXCEPT ![t] = "key"]
  /\ asked' = [asked EXCEPT ![t] = <<k, r>>]
  /\ UNCHANGED <<vars, owner, todo, batch, handled, view, outdated, slotRows>>

\* plan: the scheduled time is ahead of the clock by the lead time.
Plannable(s) == s # NoSlot => phase[s] = "open"

\* _ensure_idempotency: INSERT ... ON CONFLICT DO NOTHING, then FOR UPDATE.
LockKey(t) ==
  /\ step[t] = "key"
  /\ snapshot[AskedKey(t)] = NoOrder
  /\ Plannable(AskedRequest(t).slot)
  /\ Lock(t, KeyRow(AskedKey(t)))
  /\ step' = [step EXCEPT ![t] =
                IF AskedRequest(t).slot = NoSlot THEN "products" ELSE "slot"]
  /\ todo' = [todo EXCEPT ![t] = {p \in Product : AskedRequest(t).cups[p] > 0}]
  /\ UNCHANGED <<vars, asked, batch, handled, view, outdated, slotRows>>

\* The answer is stored already, perhaps by the transaction it waited for.
AnswerFromKey(t) ==
  /\ step[t] = "key"
  /\ Available(t, KeyRow(AskedKey(t)))
  /\ ReplayOrder(AskedKey(t), AskedRequest(t))
  /\ EndTransaction(t)
  /\ MoveVersions(t, {})
  /\ UNCHANGED slotRows

\* _reserve_slot for a slot that has its row.
TakeSeat(t) ==
  LET s == AskedRequest(t).slot
  IN  /\ step[t] = "slot"
      /\ s \in slotRows
      /\ reserved[s] < SlotCapacity
      /\ Lock(t, SlotRow(s))
      /\ Reads(t, SlotRow(s), reserved[s] + 1)
      /\ step' = [step EXCEPT ![t] = "products"]
      /\ UNCHANGED <<vars, asked, todo, batch, handled, outdated, slotRows>>

\* _reserve_slot finds no row to lock ...
MissSlotRow(t) ==
  /\ step[t] = "slot"
  /\ AskedRequest(t).slot \notin slotRows
  /\ step' = [step EXCEPT ![t] = "newslot"]
  /\ UNCHANGED <<vars, owner, asked, todo, batch, handled, view, outdated, slotRows>>

InsertSecondSlotRow(t) ==
  LET s == AskedRequest(t).slot
  IN  /\ step[t] = "newslot"
      /\ LockUnlocked(t, SlotRow(s))
      /\ Reads(t, SlotRow(s), 1)
      /\ step' = [step EXCEPT ![t] = "products"]
      /\ UNCHANGED <<vars, asked, todo, batch, handled, outdated, slotRows>>

\* ... and inserts it; the unique slot_start makes it wait for another insertion.
InsertSlotRow(t) ==
  LET s == AskedRequest(t).slot
  IN  /\ step[t] = "newslot"
      /\ s \notin slotRows
      /\ SlotCapacity > 0
      /\ Lock(t, SlotRow(s))
      /\ Reads(t, SlotRow(s), 1)
      /\ step' = [step EXCEPT ![t] = "products"]
      /\ UNCHANGED <<vars, asked, todo, batch, handled, outdated, slotRows>>

LockProductUnlocked(t, p) ==
  /\ step[t] = "products"
  /\ p \in todo[t]
  /\ LockUnlocked(t, ProductRow(p))
  /\ Reads(t, ProductRow(p), [stock |-> stock[p], inventory |-> inventory[p]])
  /\ todo' = [todo EXCEPT ![t] = @ \ {p}]
  /\ UNCHANGED <<vars, step, asked, batch, handled, outdated, slotRows>>

\* _load_products_with_groups: one SELECT ... FOR UPDATE, which locks row after row
\* in whatever order the scan finds them.
LockProduct(t, p) ==
  /\ step[t] = "products"
  /\ p \in todo[t]
  /\ Lock(t, ProductRow(p))
  /\ Reads(t, ProductRow(p), [stock |-> stock[p], inventory |-> inventory[p]])
  /\ todo' = [todo EXCEPT ![t] = @ \ {p}]
  /\ UNCHANGED <<vars, step, asked, batch, handled, outdated, slotRows>>

PurchasableAsRead(t) ==
  \A p \in Product : AskedRequest(t).cups[p] > 0 =>
    /\ ProductAsRead(t, p).inventory = "in_stock"
    /\ ProductAsRead(t, p).stock >= AskedRequest(t).cups[p]

\* The coupon is selected FOR UPDATE once the items are priced.
LockCoupon(t) ==
  LET r == AskedRequest(t)
  IN  /\ step[t] = "products" /\ todo[t] = {} /\ PurchasableAsRead(t)
      /\ UsesCoupon(r)
      /\ CouponUsable(r)
      /\ Lock(t, CouponRow(r.coupon))
      /\ Reads(t, CouponRow(r.coupon), NoOrder)
      /\ step' = [step EXCEPT ![t] = "commit"]
      /\ UNCHANGED <<vars, asked, todo, batch, handled, outdated, slotRows>>

ReadyToInsert(t) ==
  \/ step[t] = "commit"
  \/ /\ step[t] = "products" /\ todo[t] = {} /\ PurchasableAsRead(t)
     /\ ~UsesCoupon(AskedRequest(t))

StockAsRead(t) ==
  [p \in Product |->
     IF ProductRow(p) \in DOMAIN view[t] THEN ProductAsRead(t, p).stock ELSE stock[p]]

InventoryAsRead(t) ==
  [p \in Product |->
     IF ProductRow(p) \in DOMAIN view[t] THEN ProductAsRead(t, p).inventory
                                         ELSE inventory[p]]

ReservedAsRead(t) ==
  [s \in Slot |-> IF SlotRow(s) \in DOMAIN view[t] THEN view[t][SlotRow(s)]
                                                   ELSE reserved[s]]

\* The values written are computed from the values read.
CommitCreate(t) ==
  LET k == AskedKey(t)
      r == AskedRequest(t)
  IN  /\ ReadyToInsert(t)
      /\ \E o \in Order :
           /\ FirstAbsent(o)
           /\ InsertOrder(o, r)
           /\ SpendCoupon(o, r)
           /\ snapshot' = [snapshot EXCEPT ![k] = o]
           /\ AnswerOrLose(k, o)
      /\ stock' = [p \in Product |-> StockAsRead(t)[p] - r.cups[p]]
      /\ inventory' = [p \in Product |->
           IF r.cups[p] > 0 /\ StockAsRead(t)[p] = r.cups[p] THEN "sold_out"
                                                             ELSE InventoryAsRead(t)[p]]
      /\ reserved' = ReservedAsRead(t)
      /\ slotRows' = slotRows \cup ({r.slot} \ {NoSlot})
      /\ EndTransaction(t)
      /\ MoveVersions(t, {})
      /\ UNCHANGED <<reminded, cancelLog, payVars, timeVars>>

-----------------------------------------------------------------------------
(* cancel_stale_pending_orders                                             *)

\* ORDER BY created_at LIMIT BatchLimit, without a lock.
OldestStale ==
  {o \in StalePending : Cardinality({q \in StalePending : q < o}) < BatchLimit}

SelectStale(t) ==
  /\ step[t] = "idle"
  /\ OldestStale # {}
  /\ step' = [step EXCEPT ![t] = "orders"]
  /\ batch' = [batch EXCEPT ![t] = OldestStale]
  /\ UNCHANGED <<vars, owner, asked, todo, handled, view, outdated, slotRows>>

Current(t) == CHOOSE o \in batch[t] : \A q \in batch[t] : o <= q

ProductsOf(o) == {p \in Product : request[o].cups[p] > 0}

LockStaleUnchecked(t) ==
  /\ step[t] = "orders" /\ batch[t] # {}
  /\ Lock(t, OrderRow(Current(t)))
  /\ step' = [step EXCEPT ![t] = "restore"]
  /\ todo' = [todo EXCEPT ![t] = ProductsOf(Current(t))]
  /\ UNCHANGED <<vars, asked, batch, handled, view, outdated, slotRows>>

\* cancel_pending_order: lock the order, then look at it again.
LockStale(t) ==
  /\ step[t] = "orders" /\ batch[t] # {}
  /\ Lock(t, OrderRow(Current(t)))
  /\ IF Current(t) \in StalePending
       THEN /\ step' = [step EXCEPT ![t] = "restore"]
            /\ todo' = [todo EXCEPT ![t] = ProductsOf(Current(t))]
            /\ UNCHANGED batch
       ELSE /\ batch' = [batch EXCEPT ![t] = @ \ {Current(t)}]
            /\ UNCHANGED <<step, todo>>
  /\ UNCHANGED <<vars, asked, handled, view, outdated, slotRows>>

\* restore_from_order_items: cups come back, and with them the product on the menu.
RestoreProduct(t, p) ==
  /\ step[t] = "restore"
  /\ p \in todo[t]
  /\ Lock(t, ProductRow(p))
  /\ Reads(t, ProductRow(p),
           [stock |-> StockAsRead(t)[p] + request[Current(t)].cups[p],
            inventory |-> "in_stock"])
  /\ todo' = [todo EXCEPT ![t] = @ \ {p}]
  /\ UNCHANGED <<vars, step, asked, batch, handled, outdated, slotRows>>

\* release_slot, and on to the next order of the batch.
ReleaseSeat(t) ==
  LET o == Current(t)
      s == slotOf[o]
  IN  /\ step[t] = "restore" /\ todo[t] = {}
      /\ IF s = NoSlot
           THEN UNCHANGED <<owner, view>>
           ELSE /\ Lock(t, SlotRow(s))
                /\ Reads(t, SlotRow(s), IF ReservedAsRead(t)[s] > 0
                                          THEN ReservedAsRead(t)[s] - 1 ELSE 0)
      /\ handled' = [handled EXCEPT ![t] = @ \cup {o}]
      /\ batch' = [batch EXCEPT ![t] = @ \ {o}]
      /\ step' = [step EXCEPT ![t] = "orders"]
      /\ UNCHANGED <<vars, asked, todo, outdated, slotRows>>

CommitSweep(t) ==
  /\ step[t] = "orders" /\ batch[t] = {}
  /\ status' = [o \in Order |-> IF o \in handled[t] THEN "cancelled" ELSE status[o]]
  /\ slotOf' = [o \in Order |-> IF o \in handled[t] THEN NoSlot ELSE slotOf[o]]
  /\ cancelLog' = cancelLog \cup handled[t]
  /\ stock' = StockAsRead(t)
  /\ inventory' = InventoryAsRead(t)
  /\ reserved' = ReservedAsRead(t)
  /\ EndTransaction(t)
  /\ MoveVersions(t, handled[t])
  /\ UNCHANGED <<payment, request, reminded, couponUse, keyVars, payVars, timeVars,
                 slotRows>>

-----------------------------------------------------------------------------
(* handle_wechat_notification                                              *)

LockNotified(t, o) ==
  /\ step[t] = "idle"
  /\ trade[o] = "paid"
  /\ Lock(t, OrderRow(o))
  /\ step' = [step EXCEPT ![t] = "commit"]
  /\ batch' = [batch EXCEPT ![t] = {o}]
  /\ UNCHANGED <<vars, asked, todo, handled, view, outdated, slotRows>>

CommitNotify(t) ==
  /\ step[t] = "commit"
  /\ \E o \in batch[t] :
       /\ Notify(o)
       /\ MoveVersions(t, {q \in {o} : status[q] # "paid" \/ payment[q] # "paid"})
  /\ EndTransaction(t)
  /\ UNCHANGED slotRows

-----------------------------------------------------------------------------
(* send_due_reminders and activate_due_orders                              *)

\* Paid reservations in the reminder window, not reminded yet.
DueReminders ==
  {o \in Order \ reminded : /\ slotOf[o] # NoSlot /\ phase[slotOf[o]] = "remind"
                            /\ status[o] = "paid" /\ payment[o] = "paid"}

\* _load_scheduled_orders takes no lock.
LoadScheduled(t) ==
  /\ step[t] = "idle"
  /\ \/ /\ DueReminders # {}
        /\ step' = [step EXCEPT ![t] = "flush_remind"]
        /\ batch' = [batch EXCEPT ![t] = DueReminders]
     \/ /\ DueOrders # {}
        /\ step' = [step EXCEPT ![t] = "flush_activate"]
        /\ batch' = [batch EXCEPT ![t] = DueOrders]
  /\ UNCHANGED <<vars, owner, asked, todo, handled, view, outdated, slotRows>>

FlushUnversioned(t) ==
  /\ step[t] \in {"flush_remind", "flush_activate"} /\ batch[t] # {}
  /\ Lock(t, OrderRow(Current(t)))
  /\ batch' = [batch EXCEPT ![t] = @ \ {Current(t)}]
  /\ handled' = [handled EXCEPT ![t] = @ \cup {Current(t)}]
  /\ UNCHANGED <<vars, step, asked, todo, view, outdated, slotRows>>

\* flush, order by order: UPDATE ... WHERE order_id = o AND version = the version
\* read; no row matched is StaleDataError, and the whole batch is rolled back.
FlushOrder(t) ==
  /\ step[t] \in {"flush_remind", "flush_activate"} /\ batch[t] # {}
  /\ Current(t) \notin outdated[t]
  /\ Lock(t, OrderRow(Current(t)))
  /\ batch' = [batch EXCEPT ![t] = @ \ {Current(t)}]
  /\ handled' = [handled EXCEPT ![t] = @ \cup {Current(t)}]
  /\ UNCHANGED <<vars, step, asked, todo, view, outdated, slotRows>>

CommitBatch(t) ==
  /\ batch[t] = {}
  /\ \/ /\ step[t] = "flush_remind"
        /\ reminded' = reminded \cup handled[t]
        /\ UNCHANGED status
     \/ /\ step[t] = "flush_activate"
        /\ status' = [o \in Order |->
                        IF o \in handled[t] THEN "in_production" ELSE status[o]]
        /\ UNCHANGED reminded
  /\ EndTransaction(t)
  /\ MoveVersions(t, handled[t])
  /\ UNCHANGED <<payment, request, slotOf, cancelLog, shopVars, keyVars, payVars,
                 timeVars, slotRows>>

-----------------------------------------------------------------------------
(* The rest of the world                                                   *)

\* A transaction is short against the lead time of a reservation: the time of a
\* slot does not come while the transaction that reserves it runs.
BeingReserved(s) ==
  \E t \in Client : /\ step[t] \in {"slot", "newslot", "products", "commit"}
                    /\ AskedRequest(t).slot = s

Outside ==
  /\ \/ \E o \in Order : InitiatePayment(o) \/ CustomerPays(o)
     \/ OrderExpires
     \/ \E s \in Slot : SlotTime(s) /\ (phase[s] = "remind" => ~BeingReserved(s))
     \/ \E p \in Product, s \in {"in_stock", "sold_out"} :
          owner[ProductRow(p)] = Nobody /\ SetInventoryStatus(p, s)
  /\ UNCHANGED sessionVars

-----------------------------------------------------------------------------
(* Waiting for locks                                                       *)

\* The rows one of which the next statement of t locks.
Wants(t) ==
  CASE step[t] = "key" -> {KeyRow(AskedKey(t))}
    [] step[t] \in {"slot", "newslot"} -> {SlotRow(AskedRequest(t).slot)}
    [] step[t] \in {"products", "restore"} /\ todo[t] # {} ->
         {ProductRow(p) : p \in todo[t]}
    [] step[t] = "products" /\ todo[t] = {} /\ UsesCoupon(AskedRequest(t)) ->
         {CouponRow(AskedRequest(t).coupon)}
    [] step[t] = "restore" /\ todo[t] = {} /\ slotOf[Current(t)] # NoSlot ->
         {SlotRow(slotOf[Current(t)])}
    [] /\ step[t] \in {"orders", "flush_remind", "flush_activate"}
       /\ batch[t] # {} -> {OrderRow(Current(t))}
    [] OTHER -> {}

\* Every transaction of D waits for rows that only the others of D can release.
Deadlocked(D) ==
  \A t \in D : /\ Wants(t) # {}
               /\ \A row \in Wants(t) : owner[row] \in D \ {t}

\* deadlock_timeout: PostgreSQL aborts one transaction of a cycle.
InDeadlock(t) == \E D \in SUBSET Tx : t \in D /\ Deadlocked(D)

RefusedUnlessInserting(t) ==
  \/ /\ step[t] = "key"
     /\ \/ ~Plannable(AskedRequest(t).slot)
        \/ /\ snapshot[AskedKey(t)] # NoOrder
           /\ Fingerprint(request[snapshot[AskedKey(t)]]) # Fingerprint(AskedRequest(t))
  \/ /\ step[t] = "slot" /\ AskedRequest(t).slot \in slotRows
     /\ reserved[AskedRequest(t).slot] >= SlotCapacity
  \/ /\ step[t] = "products" /\ todo[t] = {}
     /\ \/ ~PurchasableAsRead(t)
        \/ UsesCoupon(AskedRequest(t)) /\ ~CouponUsable(AskedRequest(t))

\* The errors the code itself raises, each of which rolls the transaction back.
Refused(t) ==
  \/ /\ step[t] = "key"
     /\ \/ ~Plannable(AskedRequest(t).slot)
        \/ /\ snapshot[AskedKey(t)] # NoOrder
           /\ Fingerprint(request[snapshot[AskedKey(t)]]) # Fingerprint(AskedRequest(t))
  \/ /\ step[t] = "slot" /\ AskedRequest(t).slot \in slotRows
     /\ reserved[AskedRequest(t).slot] >= SlotCapacity
  \/ step[t] = "newslot" /\ (AskedRequest(t).slot \in slotRows \/ SlotCapacity = 0)
  \/ /\ step[t] = "products" /\ todo[t] = {}
     /\ \/ ~PurchasableAsRead(t)
        \/ UsesCoupon(AskedRequest(t)) /\ ~CouponUsable(AskedRequest(t))
  \/ /\ step[t] \in {"flush_remind", "flush_activate"} /\ batch[t] # {}
     /\ Current(t) \in outdated[t]

-----------------------------------------------------------------------------
ClientStep(t) ==
  \/ LockKey(t) \/ AnswerFromKey(t)
  \/ TakeSeat(t) \/ MissSlotRow(t) \/ InsertSlotRow(t)
  \/ \E p \in Product : LockProduct(t, p)
  \/ LockCoupon(t) \/ CommitCreate(t)

SweeperStep(t) ==
  \/ LockStale(t)
  \/ \E p \in Product : RestoreProduct(t, p)
  \/ ReleaseSeat(t) \/ CommitSweep(t)

BatcherStep(t) == FlushOrder(t) \/ CommitBatch(t)

Begin ==
  \/ \E t \in Client, k \in Key, r \in Requests : BeginCreate(t, k, r)
  \/ \E t \in Sweeper : SelectStale(t)
  \/ \E t \in Callback, o \in Order : LockNotified(t, o)
  \/ \E t \in Batcher : LoadScheduled(t)

Continue(t) ==
  \/ t \in Client /\ ClientStep(t)
  \/ t \in Sweeper /\ SweeperStep(t)
  \/ t \in Callback /\ CommitNotify(t)
  \/ t \in Batcher /\ BatcherStep(t)

TxNext ==
  \/ Begin
  \/ \E t \in Tx : Continue(t) \/ Rollback(t)
  \/ Outside

TxSpec == TxInit /\ [][TxNext]_txVars

\* Row locks are granted in the order they were asked for, so a session that can go
\* on again and again does; one that the code or PostgreSQL must stop, is stopped.
TxFairness ==
  \A t \in Tx : /\ SF_txVars(Continue(t))
                /\ WF_txVars((Refused(t) \/ InDeadlock(t)) /\ Rollback(t))

TxFairSpec == TxSpec /\ TxFairness

-----------------------------------------------------------------------------
(* Every interleaving of the statements amounts to the transactions of     *)
(* OrderLifecycle, one after the other: the row locks, the second look at  *)
(* a stale order and the version column of orders are enough.              *)
ImplementsLifecycle == Spec

(* What a creating transaction read from a product, slot or coupon it      *)
(* locked is still the latest committed value when it commits, so the      *)
(* stock and the seat count it computes from its reads are not lost        *)
(* updates.                                                                *)
ReadsAreCurrent ==
  \A t \in Client :
    /\ \A p \in Product : ProductRow(p) \in DOMAIN view[t] =>
         ProductAsRead(t, p) = [stock |-> stock[p], inventory |-> inventory[p]]
    /\ \A s \in Slot : SlotRow(s) \in DOMAIN view[t] => view[t][SlotRow(s)] = reserved[s] + 1
    /\ \A c \in Coupon : CouponRow(c) \in DOMAIN view[t] => couponUse[c] = NoOrder

(* A session never waits for ever: locks are released at the end of each   *)
(* transaction, a stale batch is given up, and where create_order (slot    *)
(* first, then products) meets the cleanup task (products first, then      *)
(* slot), or two baskets are locked in opposite orders, PostgreSQL ends    *)
(* the deadlock.                                                           *)
TransactionsEnd == \A t \in Tx : step[t] # "idle" ~> step[t] = "idle"
=============================================================================
