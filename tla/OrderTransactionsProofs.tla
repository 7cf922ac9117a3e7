------------------------ MODULE OrderTransactionsProofs ------------------------
(***************************************************************************)
(* Proofs about OrderTransactions, for any number of sessions, orders,     *)
(* products, slots, coupons and keys: the reads of a creating transaction  *)
(* stay current, and the statements implement the transactions of          *)
(* OrderLifecycle.                                                         *)
(***************************************************************************)
EXTENDS OrderTransactions, OrderLifecycleProofs

-----------------------------------------------------------------------------
(* The inductive invariant, one part for each kind of transaction          *)

(* A transaction has read only rows whose lock it holds.                   *)
ReadsAreLocked ==
  \A t \in Tx : \A row \in DOMAIN view[t] : owner[row] = t

Inside == {"slot", "newslot", "products", "commit"}

(* What a creating transaction has locked and read so far: its key, which  *)
(* has no answer, its seat, its products but those still to lock, and at   *)
(* the end its coupon.                                                     *)
ClientHolds(t) ==
  /\ owner[KeyRow(AskedKey(t))] = t
  /\ snapshot[AskedKey(t)] = NoOrder
  /\ AskedRequest(t).slot # NoSlot => phase[AskedRequest(t).slot] # "due"
  /\ step[t] \in {"slot", "newslot"} =>
       /\ AskedRequest(t).slot # NoSlot /\ DOMAIN view[t] = {}
       /\ todo[t] = {p \in Product : AskedRequest(t).cups[p] > 0}
  /\ \A p \in todo[t] : AskedRequest(t).cups[p] > 0

ClientSeat(t) ==
  \A s \in Slot :
    /\ SlotRow(s) \in DOMAIN view[t] <=> s = AskedRequest(t).slot
    /\ SlotRow(s) \in DOMAIN view[t] =>
         view[t][SlotRow(s)] = reserved[s] + 1 /\ reserved[s] < SlotCapacity

ClientProducts(t) ==
  \A p \in Product :
    /\ ProductRow(p) \in DOMAIN view[t] <=> AskedRequest(t).cups[p] > 0 /\ p \notin todo[t]
    /\ ProductRow(p) \in DOMAIN view[t] =>
         ProductAsRead(t, p) = [stock |-> stock[p], inventory |-> inventory[p]]

ClientCoupon(t) ==
  /\ \A c \in Coupon :
       /\ CouponRow(c) \in DOMAIN view[t] <=>
            step[t] = "commit" /\ c = AskedRequest(t).coupon
       /\ CouponRow(c) \in DOMAIN view[t] => couponUse[c] = NoOrder
  /\ step[t] = "commit" =>
       /\ todo[t] = {} /\ PurchasableAsRead(t)
       /\ UsesCoupon(AskedRequest(t)) /\ CouponUsable(AskedRequest(t))

ClientInv(t) ==
  /\ step[t] \in {"idle", "key"} \cup Inside
  /\ step[t] # "idle" => asked[t] \in Key \X Requests
  /\ step[t] \in {"idle", "key"} => DOMAIN view[t] = {}
  /\ step[t] \in Inside => ClientHolds(t)
  /\ step[t] \in {"products", "commit"} =>
       ClientSeat(t) /\ ClientProducts(t) /\ ClientCoupon(t)

(* The orders of the cleanup task whose cups of product p are given back.  *)
Returned(t, p) ==
  handled[t] \cup
    {o \in batch[t] : step[t] = "restore" /\ o = Current(t) /\ p \notin todo[t]}

(* What the cleanup task wrote in the rows it holds is what they hold now, *)
(* plus the cups and less the seats of the orders it has handled.          *)
SweeperRows(t) ==
  /\ \A p \in Product :
       /\ ProductRow(p) \in DOMAIN view[t] <=> Cups(p, Returned(t, p)) # {}
       /\ ProductRow(p) \in DOMAIN view[t] =>
            ProductAsRead(t, p) =
              [stock |-> stock[p] + Cardinality(Cups(p, Returned(t, p))),
               inventory |-> "in_stock"]
  /\ \A s \in Slot :
       /\ SlotRow(s) \in DOMAIN view[t] <=> Holders(s) \cap handled[t] # {}
       /\ SlotRow(s) \in DOMAIN view[t] =>
            view[t][SlotRow(s)] = reserved[s] - Cardinality(Holders(s) \cap handled[t])

SweeperOrders(t) ==
  /\ handled[t] \subseteq StalePending
  /\ \A o \in handled[t] : owner[OrderRow(o)] = t
  /\ batch[t] \cap handled[t] = {}
  /\ Cardinality(batch[t] \cup handled[t]) <= BatchLimit
  /\ step[t] = "restore" =>
       /\ batch[t] # {}
       /\ Current(t) \in StalePending
       /\ owner[OrderRow(Current(t))] = t
       /\ todo[t] \subseteq ProductsOf(Current(t))

SweeperInv(t) ==
  /\ step[t] \in {"idle", "orders", "restore"}
  /\ step[t] = "idle" => handled[t] = {} /\ batch[t] = {} /\ DOMAIN view[t] = {}
  /\ step[t] # "idle" => SweeperOrders(t) /\ SweeperRows(t)

CallbackInv(t) ==
  /\ step[t] \in {"idle", "commit"}
  /\ DOMAIN view[t] = {}
  /\ step[t] = "commit" =>
       \A o \in batch[t] : trade[o] = "paid" /\ owner[OrderRow(o)] = t

(* What the task read of an order, when its version has not moved on.      *)
DueAsRead(t, o) ==
  /\ slotOf[o] # NoSlot /\ status[o] = "paid" /\ payment[o] = "paid"
  /\ step[t] = "flush_remind" => phase[slotOf[o]] # "open" /\ o \notin reminded
  /\ step[t] = "flush_activate" => phase[slotOf[o]] = "due"

BatcherInv(t) ==
  /\ step[t] \in {"idle", "flush_remind", "flush_activate"}
  /\ DOMAIN view[t] = {}
  /\ step[t] = "idle" => handled[t] = {} /\ batch[t] = {}
  /\ \A o \in handled[t] : owner[OrderRow(o)] = t /\ DueAsRead(t, o)
  /\ \A o \in batch[t] \ outdated[t] : DueAsRead(t, o)

(* A slot without a row has no seat taken.                                 *)
SlotsBeforeRows == \A s \in Slot \ slotRows : reserved[s] = 0

SessionsInv ==
  /\ ReadsAreLocked
  /\ \A t \in Client : ClientInv(t)
  /\ \A t \in Sweeper : SweeperInv(t)
  /\ \A t \in Callback : CallbackInv(t)
  /\ \A t \in Batcher : BatcherInv(t)
  /\ SlotsBeforeRows

TablesInv == TypeOK /\ RowsAgree /\ SlotAccounting

TxInv == TxTypeOK /\ TablesInv /\ SessionsInv

-----------------------------------------------------------------------------
(* Rows, locks and reads                                                   *)

LEMMA RowsDiffer ==
  /\ \A x, y : KeyRow(x) = KeyRow(y) => x = y
  /\ \A x, y : SlotRow(x) = SlotRow(y) => x = y
  /\ \A x, y : ProductRow(x) = ProductRow(y) => x = y
  /\ \A x, y : CouponRow(x) = CouponRow(y) => x = y
  /\ \A x, y : OrderRow(x) = OrderRow(y) => x = y
  /\ \A x, y : SlotRow(x) # ProductRow(y)
  /\ \A x, y : SlotRow(x) # CouponRow(y)
  /\ \A x, y : ProductRow(x) # CouponRow(y)
  BY DEF KeyRow, SlotRow, ProductRow, CouponRow, OrderRow

LEMMA RowTypes ==
  /\ \A k \in Key : KeyRow(k) \in Row
  /\ \A s \in Slot : SlotRow(s) \in Row
  /\ \A p \in Product : ProductRow(p) \in Row
  /\ \A c \in Coupon : CouponRow(c) \in Row
  /\ \A o \in Order : OrderRow(o) \in Row
  BY DEF Row

LEMMA LockEffect ==
  ASSUME TxTypeOK, NEW t \in Tx, NEW row \in Row, Lock(t, row)
  PROVE  /\ owner' \in [Row -> Tx \cup {Nobody}]
         /\ owner'[row] = t
         /\ \A r \in Row : owner[r] = t => owner'[r] = t
         /\ \A r \in Row, u \in Tx \ {t} : owner[r] = u => owner'[r] = u
  BY SessionsAssumption DEF Lock, Available, TxTypeOK

LEMMA ReadsEffect ==
  ASSUME TxTypeOK, NEW t \in Tx, NEW row \in Row, NEW value, Reads(t, row, value)
  PROVE  /\ DOMAIN view' = Tx
         /\ \A u \in Tx : DOMAIN view'[u] \subseteq Row
         /\ \A u \in Tx \ {t} : view'[u] = view[u]
         /\ DOMAIN view'[t] = DOMAIN view[t] \cup {row}
         /\ view'[t][row] = value
         /\ \A r \in DOMAIN view[t] : r # row => view'[t][r] = view[t][r]
  BY DEF Reads, TxTypeOK

LEMMA EndEffect ==
  ASSUME TxTypeOK, NEW t \in Tx, EndTransaction(t)
  PROVE  /\ owner' \in [Row -> Tx \cup {Nobody}]
         /\ step' \in [Tx -> Step]
         /\ asked' \in [Client -> (Key \X Requests) \cup {NothingAsked}]
         /\ todo' \in [Tx -> SUBSET Product]
         /\ batch' \in [Tx -> SUBSET Order]
         /\ handled' \in [Tx -> SUBSET Order]
         /\ DOMAIN view' = Tx
         /\ \A u \in Tx : DOMAIN view'[u] \subseteq Row
         /\ step'[t] = "idle" /\ todo'[t] = {} /\ batch'[t] = {} /\ handled'[t] = {}
         /\ DOMAIN view'[t] = {}
         /\ \A u \in Tx \ {t} :
              /\ step'[u] = step[u] /\ todo'[u] = todo[u] /\ batch'[u] = batch[u]
              /\ handled'[u] = handled[u] /\ view'[u] = view[u]
              /\ u \in Client => asked'[u] = asked[u]
              /\ \A row \in Row : owner[row] = u => owner'[row] = u
  <1>1. /\ owner' \in [Row -> Tx \cup {Nobody}]
        /\ \A u \in Tx \ {t} : \A row \in Row : owner[row] = u => owner'[row] = u
    BY DEF EndTransaction, TxTypeOK
  <1>2. /\ step' \in [Tx -> Step] /\ step'[t] = "idle"
        /\ \A u \in Tx \ {t} : step'[u] = step[u]
    BY DEF EndTransaction, TxTypeOK, Step
  <1>3. /\ asked' \in [Client -> (Key \X Requests) \cup {NothingAsked}]
        /\ \A u \in Client \ {t} : asked'[u] = asked[u]
    BY DEF EndTransaction, TxTypeOK
  <1>4. /\ todo' \in [Tx -> SUBSET Product] /\ todo'[t] = {}
        /\ batch' \in [Tx -> SUBSET Order] /\ batch'[t] = {}
        /\ handled' \in [Tx -> SUBSET Order] /\ handled'[t] = {}
        /\ \A u \in Tx \ {t} : /\ todo'[u] = todo[u] /\ batch'[u] = batch[u]
                               /\ handled'[u] = handled[u]
    BY DEF EndTransaction, TxTypeOK
  <1>5. /\ DOMAIN view' = Tx /\ DOMAIN view'[t] = {}
        /\ \A u \in Tx : DOMAIN view'[u] \subseteq Row
        /\ \A u \in Tx \ {t} : view'[u] = view[u]
    BY DEF EndTransaction, TxTypeOK, NothingRead
  <1> QED
    BY <1>1, <1>2, <1>3, <1>4, <1>5

LEMMA LeastElement ==
  ASSUME NEW T, T \in SUBSET Nat, T # {}
  PROVE  \E x \in T : \A y \in T : x <= y
  <1> DEFINE Family == {0..x : x \in T}
             Below == StrictSubsetOrdering(Nat)
  <1>1. Family \subseteq FiniteSubsetsOf(Nat)
    <2> SUFFICES ASSUME NEW x \in T PROVE 0..x \in FiniteSubsetsOf(Nat)
      OBVIOUS
    <2>1. IsFiniteSet(0..x)
      BY FS_Interval
    <2> QED
      BY <2>1 DEF FiniteSubsetsOf
  <1>2. Family # {}
    OBVIOUS
  <1>3. IsWellFoundedOn(Below, FiniteSubsetsOf(Nat))
    BY FS_StrictSubsetOrderingWellFounded
  <1> HIDE DEF Below
  <1>4. \E S \in Family : \A U \in Family : <<U, S>> \notin Below
    BY <1>1, <1>2, <1>3, WFMin
  <1>5. PICK x \in T : \A y \in T : <<0..y, 0..x>> \notin Below
    BY <1>4
  <1>6. ASSUME NEW y \in T, y < x PROVE FALSE
    <2>1. x \in Nat /\ y \in Nat
      OBVIOUS
    <2>2. 0..y \subseteq 0..x /\ x \in 0..x /\ x \notin 0..y
      BY <1>6, <2>1
    <2>3. <<0..y, 0..x>> \in Below
      BY <2>1, <2>2 DEF Below, StrictSubsetOrdering
    <2> QED
      BY <1>5, <2>3
  <1> QED
    BY <1>6

LEMMA CurrentIsLeast ==
  ASSUME TxTypeOK, NEW t \in Tx, batch[t] # {}
  PROVE  Current(t) \in batch[t] /\ \A o \in batch[t] : Current(t) <= o
  <1>1. batch[t] \in SUBSET Nat
    BY DEF TxTypeOK, Order
  <1>2. \E x \in batch[t] : \A y \in batch[t] : x <= y
    BY <1>1, LeastElement
  <1> QED
    BY <1>2 DEF Current

-----------------------------------------------------------------------------
(* Every step is a step of OrderLifecycle or changes none of its variables *)

LEMMA AskedValues ==
  ASSUME TxInv, NEW t \in Client, step[t] # "idle"
  PROVE  /\ AskedKey(t) \in Key
         /\ AskedRequest(t) \in Requests
         /\ AskedRequest(t) \in Request
         /\ AskedRequest(t).cups \in [Product -> 0..MaxQty]
         /\ AskedRequest(t).slot \in Slot \cup {NoSlot}
         /\ UsesCoupon(AskedRequest(t)) => AskedRequest(t).coupon \in Coupon
  <1>1. asked[t] \in Key \X Requests
    BY DEF TxInv, SessionsInv, ClientInv
  <1>2. AskedKey(t) \in Key /\ AskedRequest(t) \in Requests
    BY <1>1 DEF AskedKey, AskedRequest
  <1> QED
    BY <1>2, RequestFields

LEMMA ReadyClient ==
  ASSUME TxInv, NEW t \in Client, ReadyToInsert(t)
  PROVE  /\ step[t] \in {"products", "commit"} /\ todo[t] = {}
         /\ ClientHolds(t) /\ ClientSeat(t) /\ ClientProducts(t) /\ ClientCoupon(t)
         /\ PurchasableAsRead(t)
         /\ UsesCoupon(AskedRequest(t)) =>
              step[t] = "commit" /\ CouponUsable(AskedRequest(t))
  <1>1. step[t] \in {"products", "commit"}
    BY DEF ReadyToInsert
  <1>2. ClientHolds(t) /\ ClientSeat(t) /\ ClientProducts(t) /\ ClientCoupon(t)
    BY <1>1 DEF TxInv, SessionsInv, ClientInv, Inside
  <1> QED
    BY <1>1, <1>2 DEF ReadyToInsert, ClientCoupon

(* What is computed from the reads is computed from the latest values.     *)
LEMMA ReadsOfReadyClient ==
  ASSUME TxInv, NEW t \in Client, ReadyToInsert(t)
  PROVE  /\ StockAsRead(t) = stock
         /\ InventoryAsRead(t) = inventory
         /\ ReservedAsRead(t) = [s \in Slot |-> IF s = AskedRequest(t).slot
                                                  THEN reserved[s] + 1 ELSE reserved[s]]
         /\ Accepts(AskedRequest(t))
  <1> DEFINE r == AskedRequest(t)
  <1>1. /\ ClientHolds(t) /\ ClientSeat(t) /\ ClientProducts(t)
        /\ PurchasableAsRead(t) /\ todo[t] = {}
        /\ UsesCoupon(r) => CouponUsable(r)
    BY ReadyClient
  <1>2. TypeOK
    BY DEF TxInv, TablesInv
  <1>3. \A p \in Product : ProductRow(p) \in DOMAIN view[t] =>
          ProductAsRead(t, p).stock = stock[p]
          /\ ProductAsRead(t, p).inventory = inventory[p]
    BY <1>1 DEF ClientProducts
  <1>4. StockAsRead(t) = stock
    BY <1>2, <1>3 DEF StockAsRead, TypeOK
  <1>5. InventoryAsRead(t) = inventory
    BY <1>2, <1>3 DEF InventoryAsRead, TypeOK
  <1>6. ReservedAsRead(t) = [s \in Slot |-> IF s = r.slot
                                              THEN reserved[s] + 1 ELSE reserved[s]]
    BY <1>1 DEF ReservedAsRead, ClientSeat
  <1>7. SlotBookable(r.slot)
    <2> SUFFICES ASSUME r.slot # NoSlot
                 PROVE  phase[r.slot] # "due" /\ reserved[r.slot] < SlotCapacity
      BY DEF SlotBookable
    <2>1. step[t] # "idle"
      BY ReadyClient
    <2>2. r.slot \in Slot
      BY <2>1, AskedValues
    <2> QED
      BY <1>1, <2>2 DEF ClientHolds, ClientSeat
  <1>8. ASSUME NEW p \in Product, r.cups[p] > 0 PROVE Purchasable(p, r.cups[p])
    <2>1. ProductRow(p) \in DOMAIN view[t]
      BY <1>1, <1>8 DEF ClientProducts
    <2>2. /\ ProductAsRead(t, p).inventory = "in_stock"
          /\ ProductAsRead(t, p).stock >= r.cups[p]
      BY <1>1, <1>8 DEF PurchasableAsRead
    <2> QED
      BY <1>3, <2>1, <2>2 DEF Purchasable
  <1> QED
    BY <1>1, <1>4, <1>5, <1>6, <1>7, <1>8 DEF Accepts

LEMMA CommitCreateImplements ==
  ASSUME TxInv, NEW t \in Client, CommitCreate(t)
  PROVE  CreateOrder(AskedKey(t), AskedRequest(t))
  <1> DEFINE k == AskedKey(t)
             r == AskedRequest(t)
  <1>1. ReadyToInsert(t)
    BY DEF CommitCreate
  <1>2. snapshot[k] = NoOrder
    BY <1>1, ReadyClient DEF ClientHolds
  <1>3. Accepts(r)
    BY <1>1, ReadsOfReadyClient
  <1>4. PICK o \in Order : /\ FirstAbsent(o) /\ InsertOrder(o, r) /\ SpendCoupon(o, r)
                           /\ snapshot' = [snapshot EXCEPT ![k] = o]
                           /\ AnswerOrLose(k, o)
    BY DEF CommitCreate
  <1>5. DeductStock(r)
    BY <1>1, ReadsOfReadyClient DEF CommitCreate, DeductStock
  <1>6. ReserveSlot(r.slot)
    BY <1>1, ReadsOfReadyClient DEF CommitCreate, ReserveSlot
  <1>7. UNCHANGED <<reminded, cancelLog, payVars, timeVars>>
    BY DEF CommitCreate
  <1> QED
    BY <1>2, <1>3, <1>4, <1>5, <1>6, <1>7 DEF CreateOrder, CreateOrderUnder

LEMMA CommitSweepImplements ==
  ASSUME TxInv, NEW t \in Sweeper, CommitSweep(t)
  PROVE  CancelStale \/ UNCHANGED vars
  <1> DEFINE S == handled[t]
  <1>1. step[t] = "orders" /\ batch[t] = {}
    BY DEF CommitSweep
  <1>2. SweeperOrders(t) /\ SweeperRows(t)
    BY <1>1 DEF TxInv, SessionsInv, SweeperInv
  <1>3. TypeOK /\ SlotAccounting
    BY DEF TxInv, TablesInv
  <1>4. S \subseteq StalePending /\ Cardinality(S) <= BatchLimit /\ S \in SUBSET Order
    BY <1>1, <1>2 DEF SweeperOrders, StalePending
  <1>5. \A p \in Product : Returned(t, p) = S
    BY <1>1 DEF Returned
  <1>6. \A p \in Product : /\ stock[p] \in Nat
                           /\ IsFiniteSet(Cups(p, S)) /\ Cardinality(Cups(p, S)) \in Nat
                           /\ (Cups(p, S) = {} => Cardinality(Cups(p, S)) = 0)
    BY <1>3, <1>4, CardinalityInBatch, FS_EmptySet DEF TypeOK
  <1>7. StockAsRead(t) = [p \in Product |-> stock[p] + Cardinality(Cups(p, S))]
    <2> SUFFICES ASSUME NEW p \in Product
                 PROVE  StockAsRead(t)[p] = stock[p] + Cardinality(Cups(p, S))
      BY DEF StockAsRead
    <2>1. CASE ProductRow(p) \in DOMAIN view[t]
      <3>1. ProductAsRead(t, p).stock = stock[p] + Cardinality(Cups(p, S))
        BY <1>2, <1>5, <2>1 DEF SweeperRows
      <3> QED
        BY <2>1, <3>1 DEF StockAsRead
    <2>2. CASE ProductRow(p) \notin DOMAIN view[t]
      <3>1. Cups(p, S) = {}
        BY <1>2, <1>5, <2>2 DEF SweeperRows
      <3>2. StockAsRead(t)[p] = stock[p]
        BY <2>2 DEF StockAsRead
      <3> QED
        BY <1>6, <3>1, <3>2
    <2> QED
      BY <2>1, <2>2
  <1>8. InventoryAsRead(t) = [p \in Product |->
                               IF Cups(p, S) # {} THEN "in_stock" ELSE inventory[p]]
    BY <1>2, <1>5 DEF InventoryAsRead, SweeperRows
  <1>9. ReservedAsRead(t) = [s \in Slot |->
          LET n == Cardinality(Holders(s) \cap S)
          IN  IF reserved[s] < n THEN 0 ELSE reserved[s] - n]
    <2> SUFFICES ASSUME NEW s \in Slot
                 PROVE  ReservedAsRead(t)[s] =
                          LET n == Cardinality(Holders(s) \cap S)
                          IN  IF reserved[s] < n THEN 0 ELSE reserved[s] - n
      BY DEF ReservedAsRead
    <2> DEFINE n == Cardinality(Holders(s) \cap S)
    <2>1. IsFiniteSet(Holders(s)) /\ n \in Nat
      BY HoldersFinite
    <2>2. n <= reserved[s]
      BY <1>3, <2>1, FS_Intersection DEF SlotAccounting
    <2>3. reserved[s] \in Nat
      BY <1>3 DEF TypeOK
    <2>4. ReservedAsRead(t)[s] = reserved[s] - n
      <3>1. CASE SlotRow(s) \in DOMAIN view[t]
        BY <1>2, <3>1 DEF SweeperRows, ReservedAsRead
      <3>2. CASE SlotRow(s) \notin DOMAIN view[t]
        <4>1. n = 0
          BY <1>2, <3>2, FS_EmptySet DEF SweeperRows
        <4>2. ReservedAsRead(t)[s] = reserved[s]
          BY <3>2 DEF ReservedAsRead
        <4> QED
          BY <2>3, <4>1, <4>2
      <3> QED
        BY <3>1, <3>2
    <2> HIDE DEF n
    <2>5. ReservedAsRead(t)[s] = IF reserved[s] < n THEN 0 ELSE reserved[s] - n
      BY <2>1, <2>2, <2>3, <2>4
    <2> QED
      BY <2>5 DEF n
  <1>10. CASE S # {}
    <2>1. ReturnStock(S) /\ ReopenInventory(S) /\ ReleaseSlots(S)
      BY <1>7, <1>8, <1>9 DEF CommitSweep, ReturnStock, ReopenInventory, ReleaseSlots
    <2>2. CancelBatch(S)
      BY <2>1 DEF CommitSweep, CancelBatch
    <2>3. S \in Batches(StalePending)
      BY <1>4, <1>10 DEF Batches
    <2> QED
      BY <2>2, <2>3 DEF CancelStale
  <1>11. CASE S = {}
    <2>1. \A p \in Product : Cups(p, S) = {}
      BY <1>11 DEF Cups
    <2>2. stock' = stock /\ inventory' = inventory
      BY <1>3, <1>6, <1>7, <1>8, <2>1 DEF CommitSweep, TypeOK
    <2>3. \A s \in Slot : SlotRow(s) \notin DOMAIN view[t]
      BY <1>2, <1>11 DEF SweeperRows
    <2>4. reserved' = reserved
      BY <1>3, <2>3 DEF CommitSweep, ReservedAsRead, TypeOK
    <2>5. status' = status /\ slotOf' = slotOf /\ cancelLog' = cancelLog
      BY <1>3, <1>11 DEF CommitSweep, TypeOK
    <2> QED
      BY <2>2, <2>4, <2>5 DEF CommitSweep, vars, orderVars, shopVars
  <1> QED
    BY <1>10, <1>11

LEMMA CommitBatchImplements ==
  ASSUME TxInv, NEW t \in Batcher, CommitBatch(t)
  PROVE  SendReminders \/ ActivateDue \/ UNCHANGED vars
  <1>1. \A o \in handled[t] : o \in Order /\ DueAsRead(t, o)
    BY DEF TxInv, SessionsInv, BatcherInv, TxTypeOK, Tx
  <1>2. TypeOK
    BY DEF TxInv, TablesInv
  <1>3. CASE handled[t] = {}
    <2>1. reminded' = reminded /\ status' = status
      BY <1>2, <1>3 DEF CommitBatch, TypeOK
    <2> QED
      BY <2>1 DEF CommitBatch, vars, orderVars
  <1>4. CASE handled[t] # {} /\ step[t] = "flush_remind"
    <2>1. handled[t] \in SUBSET Remindable
      BY <1>1, <1>4 DEF DueAsRead, Remindable
    <2>2. reminded' = reminded \cup handled[t] /\ status' = status
      BY <1>4 DEF CommitBatch
    <2> QED
      BY <1>4, <2>1, <2>2 DEF CommitBatch, SendReminders
  <1>5. CASE handled[t] # {} /\ step[t] = "flush_activate"
    <2>1. handled[t] \in SUBSET DueOrders
      BY <1>1, <1>5 DEF DueAsRead, DueOrders
    <2>2. /\ reminded' = reminded
          /\ status' = [o \in Order |->
                          IF o \in handled[t] THEN "in_production" ELSE status[o]]
      BY <1>5 DEF CommitBatch
    <2>3. ActivateBatch(handled[t])
      BY <1>5, <2>2 DEF CommitBatch, ActivateBatch
    <2> QED
      BY <2>1, <2>3 DEF ActivateDue
  <1> QED
    BY <1>3, <1>4, <1>5 DEF CommitBatch

LEMMA StepImplements ==
  ASSUME TxInv, [TxNext]_txVars
  PROVE  [Next]_vars
  <1>1. ASSUME Begin PROVE UNCHANGED vars
    BY <1>1 DEF Begin, BeginCreate, SelectStale, LockNotified, LoadScheduled
  <1>2. ASSUME NEW t \in Client, ClientStep(t) PROVE [Next]_vars
    <2>1. CASE CommitCreate(t)
      <3>1. step[t] # "idle"
        BY <2>1 DEF CommitCreate, ReadyToInsert
      <3>2. AskedKey(t) \in Key /\ AskedRequest(t) \in Requests
        BY <3>1, AskedValues
      <3> QED
        BY <2>1, <3>2, CommitCreateImplements DEF Next
    <2>2. CASE AnswerFromKey(t)
      <3>1. step[t] # "idle"
        BY <2>2 DEF AnswerFromKey
      <3>2. AskedKey(t) \in Key /\ AskedRequest(t) \in Requests
        BY <3>1, AskedValues
      <3> QED
        BY <2>2, <3>2 DEF AnswerFromKey, Next
    <2>3. CASE LockKey(t) \/ TakeSeat(t) \/ MissSlotRow(t) \/ InsertSlotRow(t)
                 \/ LockCoupon(t) \/ \E p \in Product : LockProduct(t, p)
      BY <2>3 DEF LockKey, TakeSeat, MissSlotRow, InsertSlotRow, LockCoupon, LockProduct
    <2> QED
      BY <1>2, <2>1, <2>2, <2>3 DEF ClientStep
  <1>3. ASSUME NEW t \in Sweeper, SweeperStep(t) PROVE [Next]_vars
    <2>1. CASE CommitSweep(t)
      BY <2>1, CommitSweepImplements DEF Next
    <2>2. CASE LockStale(t) \/ ReleaseSeat(t) \/ \E p \in Product : RestoreProduct(t, p)
      BY <2>2 DEF LockStale, ReleaseSeat, RestoreProduct
    <2> QED
      BY <1>3, <2>1, <2>2 DEF SweeperStep
  <1>4. ASSUME NEW t \in Callback, CommitNotify(t) PROVE [Next]_vars
    <2>1. PICK o \in batch[t] : Notify(o)
      BY <1>4 DEF CommitNotify
    <2>2. o \in Order
      BY DEF TxInv, TxTypeOK, Tx
    <2> QED
      BY <2>1, <2>2 DEF Next
  <1>5. ASSUME NEW t \in Batcher, BatcherStep(t) PROVE [Next]_vars
    <2>1. CASE CommitBatch(t)
      BY <2>1, CommitBatchImplements DEF Next
    <2>2. CASE FlushOrder(t)
      BY <2>2 DEF FlushOrder
    <2> QED
      BY <1>5, <2>1, <2>2 DEF BatcherStep
  <1>6. ASSUME NEW t \in Tx, Rollback(t) PROVE UNCHANGED vars
    BY <1>6 DEF Rollback
  <1>7. ASSUME Outside PROVE Next
    BY <1>7 DEF Outside, Next
  <1>8. ASSUME UNCHANGED txVars PROVE UNCHANGED vars
    BY <1>8 DEF txVars
  <1> QED
    BY <1>1, <1>2, <1>3, <1>4, <1>5, <1>6, <1>7, <1>8 DEF TxNext, Continue

-----------------------------------------------------------------------------
(* What a step of transaction t leaves to the others (t = Nobody: a step   *)
(* of the rest of the world)                                               *)

SessionsKept(t) ==
  \A u \in Tx \ {t} :
    /\ step'[u] = step[u] /\ todo'[u] = todo[u] /\ batch'[u] = batch[u]
    /\ handled'[u] = handled[u] /\ view'[u] = view[u]
    /\ u \in Client => asked'[u] = asked[u]
    /\ \A row \in Row : owner[row] = u => owner'[row] = u

OrderKept(o) ==
  /\ status'[o] = status[o] /\ payment'[o] = payment[o] /\ slotOf'[o] = slotOf[o]
  /\ o \in reminded' <=> o \in reminded

(* A row that another transaction has locked keeps its values.             *)
RowsKept(t) ==
  \A u \in Tx \ {t} :
    /\ \A k \in Key : owner[KeyRow(k)] = u => snapshot'[k] = snapshot[k]
    /\ \A p \in Product : owner[ProductRow(p)] = u =>
         stock'[p] = stock[p] /\ inventory'[p] = inventory[p]
    /\ \A s \in Slot : owner[SlotRow(s)] = u => reserved'[s] = reserved[s]
    /\ \A c \in Coupon : owner[CouponRow(c)] = u => couponUse'[c] = couponUse[c]
    /\ \A o \in Created : owner[OrderRow(o)] = u => OrderKept(o)

(* An order that changes has its version moved on.                         *)
VersionsKept(t) ==
  \A b \in Batcher \ {t} : \A o \in batch[b] \ outdated'[b] :
    /\ o \notin outdated[b]
    /\ o \in Created => OrderKept(o)

(* Time goes forward, but not past a slot that is being reserved.          *)
TimePasses(t) ==
  /\ cutoff <= cutoff'
  /\ \A s \in Slot : /\ phase[s] = "due" => phase'[s] = "due"
                     /\ phase[s] # "open" => phase'[s] # "open"
  /\ \A u \in Client \ {t} :
       step[u] \in Inside /\ AskedRequest(u).slot # NoSlot
         /\ phase[AskedRequest(u).slot] # "due" => phase'[AskedRequest(u).slot] # "due"

HistoryKept ==
  /\ \A o \in Created : request'[o] = request[o]
  /\ \A o \in Order : trade[o] = "paid" => trade'[o] = "paid"

Frame(t) ==
  SessionsKept(t) /\ RowsKept(t) /\ VersionsKept(t) /\ TimePasses(t) /\ HistoryKept

LEMMA QuietTables ==
  ASSUME TxInv, NEW t, SessionsKept(t), UNCHANGED vars,
         \A b \in Batcher \ {t} : outdated[b] \subseteq outdated'[b]
  PROVE  Frame(t)
  <1> USE DEF vars, orderVars, shopVars, keyVars, payVars, timeVars
  <1>1. TypeOK
    BY DEF TxInv, TablesInv
  <1>2. RowsKept(t) /\ VersionsKept(t) /\ HistoryKept
    BY DEF RowsKept, OrderKept, VersionsKept, HistoryKept
  <1>3. TimePasses(t)
    BY <1>1 DEF TimePasses, TypeOK
  <1> QED
    BY <1>2, <1>3 DEF Frame

LEMMA VersionsEffect ==
  ASSUME TxTypeOK, NEW t, NEW S, MoveVersions(t, S)
  PROVE  /\ outdated' \in [Batcher -> SUBSET Order]
         /\ \A b \in Batcher \ {t} : outdated'[b] = outdated[b] \cup (S \cap batch[b])
  BY DEF MoveVersions, TxTypeOK, Tx

LEMMA EndKeepsSessions ==
  ASSUME TxInv, NEW t \in Tx, EndTransaction(t)
  PROVE  SessionsKept(t)
  BY EndEffect DEF TxInv, SessionsKept

LEMMA FrameCreate ==
  ASSUME TxInv, NEW t \in Client, CommitCreate(t)
  PROVE  Frame(t)
  <1> DEFINE k == AskedKey(t)
             r == AskedRequest(t)
  <1>1. t \in Tx /\ EndTransaction(t) /\ MoveVersions(t, {}) /\ ReadyToInsert(t)
    BY DEF CommitCreate, Tx
  <1>2. TxTypeOK /\ TypeOK /\ ReadsAreLocked
    BY DEF TxInv, TablesInv, SessionsInv
  <1>3. SessionsKept(t)
    BY <1>1, EndKeepsSessions
  <1>4. CreateOrder(k, r)
    BY CommitCreateImplements
  <1>5. PICK o \in Order : /\ FirstAbsent(o) /\ InsertOrder(o, r) /\ DeductStock(r)
                           /\ ReserveSlot(r.slot) /\ SpendCoupon(o, r)
                           /\ snapshot' = [snapshot EXCEPT ![k] = o]
    BY <1>4 DEF CreateOrder, CreateOrderUnder
  <1>6. UNCHANGED <<reminded, cancelLog, payVars, timeVars>>
    BY <1>4 DEF CreateOrder, CreateOrderUnder
  <1>7. /\ ClientHolds(t) /\ ClientSeat(t) /\ ClientProducts(t) /\ ClientCoupon(t)
        /\ todo[t] = {} /\ step[t] # "idle"
        /\ UsesCoupon(r) => step[t] = "commit"
    BY <1>1, ReadyClient
  <1>8. k \in Key /\ r.cups \in [Product -> 0..MaxQty] /\ r.slot \in Slot \cup {NoSlot}
        /\ (UsesCoupon(r) => r.coupon \in Coupon)
    BY <1>7, AskedValues
  <1>9. \A q \in Created : q \in Order /\ q # o /\ OrderKept(q) /\ request'[q] = request[q]
    BY <1>2, <1>5, <1>6 DEF FirstAbsent, InsertOrder, OrderKept, Created, TypeOK
  <1>10. RowsKept(t)
    <2> SUFFICES ASSUME NEW u \in Tx \ {t}
                 PROVE  /\ \A l \in Key : owner[KeyRow(l)] = u => snapshot'[l] = snapshot[l]
                        /\ \A p \in Product : owner[ProductRow(p)] = u =>
                             stock'[p] = stock[p] /\ inventory'[p] = inventory[p]
                        /\ \A s \in Slot : owner[SlotRow(s)] = u => reserved'[s] = reserved[s]
                        /\ \A c \in Coupon : owner[CouponRow(c)] = u =>
                             couponUse'[c] = couponUse[c]
                        /\ \A q \in Created : owner[OrderRow(q)] = u => OrderKept(q)
      BY DEF RowsKept
    <2>1. \A l \in Key : owner[KeyRow(l)] = u => snapshot'[l] = snapshot[l]
      BY <1>2, <1>5, <1>7 DEF ClientHolds, TypeOK
    <2>2. ASSUME NEW p \in Product, owner[ProductRow(p)] = u
          PROVE  stock'[p] = stock[p] /\ inventory'[p] = inventory[p]
      <3>1. ProductRow(p) \notin DOMAIN view[t]
        BY <1>1, <1>2, <2>2 DEF ReadsAreLocked
      <3>2. ~ (r.cups[p] > 0)
        BY <1>7, <3>1 DEF ClientProducts
      <3>3. r.cups[p] = 0
        BY <1>8, <3>2, BoundsAssumption
      <3>4. stock[p] \in Nat
        BY <1>2 DEF TypeOK
      <3> QED
        BY <1>5, <3>3, <3>4 DEF DeductStock
    <2>3. ASSUME NEW s \in Slot, owner[SlotRow(s)] = u PROVE reserved'[s] = reserved[s]
      <3>1. SlotRow(s) \notin DOMAIN view[t]
        BY <1>1, <1>2, <2>3 DEF ReadsAreLocked
      <3>2. s # r.slot
        BY <1>7, <3>1 DEF ClientSeat
      <3> QED
        BY <1>5, <3>2 DEF ReserveSlot
    <2>4. ASSUME NEW c \in Coupon, owner[CouponRow(c)] = u PROVE couponUse'[c] = couponUse[c]
      <3>1. CouponRow(c) \notin DOMAIN view[t]
        BY <1>1, <1>2, <2>4 DEF ReadsAreLocked
      <3>2. UsesCoupon(r) => c # r.coupon
        BY <1>7, <3>1 DEF ClientCoupon
      <3> QED
        BY <1>2, <1>5, <3>2 DEF SpendCoupon, TypeOK
    <2> QED
      BY <1>9, <2>1, <2>2, <2>3, <2>4
  <1>11. VersionsKept(t)
    <2>1. \A b \in Batcher \ {t} : outdated'[b] = outdated[b] \cup ({} \cap batch[b])
      BY <1>1, <1>2, VersionsEffect
    <2> QED
      BY <1>9, <2>1 DEF VersionsKept
  <1>12. TimePasses(t)
    BY <1>2, <1>6 DEF TimePasses, timeVars, TypeOK
  <1>13. HistoryKept
    BY <1>6, <1>9 DEF HistoryKept, payVars
  <1> QED
    BY <1>3, <1>10, <1>11, <1>12, <1>13 DEF Frame

LEMMA FrameSweep ==
  ASSUME TxInv, NEW t \in Sweeper, CommitSweep(t)
  PROVE  Frame(t)
  <1>1. t \in Tx /\ EndTransaction(t) /\ MoveVersions(t, handled[t]) /\ step[t] = "orders"
    BY DEF CommitSweep, Tx
  <1>2. TxTypeOK /\ TypeOK /\ ReadsAreLocked
    BY DEF TxInv, TablesInv, SessionsInv
  <1>3. SessionsKept(t)
    BY <1>1, EndKeepsSessions
  <1>4. \A o \in handled[t] : owner[OrderRow(o)] = t
    BY <1>1 DEF TxInv, SessionsInv, SweeperInv, SweeperOrders
  <1>5. UNCHANGED <<payment, request, reminded, couponUse, keyVars, payVars, timeVars>>
    BY DEF CommitSweep
  <1>6. \A q \in Created : q \notin handled[t] => OrderKept(q)
    BY <1>2, <1>5 DEF CommitSweep, OrderKept, Created
  <1>7. RowsKept(t)
    <2> SUFFICES ASSUME NEW u \in Tx \ {t}
                 PROVE  /\ \A p \in Product : owner[ProductRow(p)] = u =>
                             stock'[p] = stock[p] /\ inventory'[p] = inventory[p]
                        /\ \A s \in Slot : owner[SlotRow(s)] = u => reserved'[s] = reserved[s]
                        /\ \A q \in Created : owner[OrderRow(q)] = u => OrderKept(q)
      BY <1>5 DEF RowsKept, keyVars
    <2>1. \A row \in DOMAIN view[t] : owner[row] # u
      BY <1>1, <1>2 DEF ReadsAreLocked
    <2>2. \A p \in Product : owner[ProductRow(p)] = u =>
             stock'[p] = stock[p] /\ inventory'[p] = inventory[p]
      BY <2>1 DEF CommitSweep, StockAsRead, InventoryAsRead
    <2>3. \A s \in Slot : owner[SlotRow(s)] = u => reserved'[s] = reserved[s]
      BY <2>1 DEF CommitSweep, ReservedAsRead
    <2> QED
      BY <1>4, <1>6, <2>2, <2>3
  <1>8. VersionsKept(t)
    <2>1. \A b \in Batcher \ {t} : outdated'[b] = outdated[b] \cup (handled[t] \cap batch[b])
      BY <1>1, <1>2, VersionsEffect
    <2> QED
      BY <1>6, <2>1 DEF VersionsKept
  <1>9. TimePasses(t)
    BY <1>2, <1>5 DEF TimePasses, timeVars, TypeOK
  <1>10. HistoryKept
    BY <1>5 DEF HistoryKept, payVars
  <1> QED
    BY <1>3, <1>7, <1>8, <1>9, <1>10 DEF Frame

LEMMA FrameNotify ==
  ASSUME TxInv, NEW t \in Callback, CommitNotify(t)
  PROVE  Frame(t)
  <1>1. t \in Tx /\ EndTransaction(t) /\ step[t] = "commit"
    BY DEF CommitNotify, Tx
  <1>2. TxTypeOK /\ TypeOK
    BY DEF TxInv, TablesInv
  <1>3. SessionsKept(t)
    BY <1>1, EndKeepsSessions
  <1>4. PICK o \in batch[t] :
           /\ Notify(o)
           /\ MoveVersions(t, {q \in {o} : status[q] # "paid" \/ payment[q] # "paid"})
    BY DEF CommitNotify
  <1>5. owner[OrderRow(o)] = t
    BY <1>1 DEF TxInv, SessionsInv, CallbackInv
  <1>6. /\ status' = [status EXCEPT ![o] = "paid"] /\ payment' = [payment EXCEPT ![o] = "paid"]
        /\ UNCHANGED <<request, slotOf, reminded, cancelLog, shopVars, keyVars, trade,
                       timeVars>>
    BY <1>4 DEF Notify
  <1>7. \A q \in Created : q # o \/ (status[q] = "paid" /\ payment[q] = "paid") => OrderKept(q)
    BY <1>2, <1>6 DEF OrderKept, Created, TypeOK
  <1>8. RowsKept(t)
    BY <1>5, <1>6, <1>7 DEF RowsKept, keyVars, shopVars
  <1>9. VersionsKept(t)
    <2>1. \A b \in Batcher \ {t} : outdated'[b] = outdated[b] \cup
             ({q \in {o} : status[q] # "paid" \/ payment[q] # "paid"} \cap batch[b])
      BY <1>2, <1>4, VersionsEffect
    <2> QED
      BY <1>7, <2>1 DEF VersionsKept
  <1>10. TimePasses(t)
    BY <1>2, <1>6 DEF TimePasses, timeVars, TypeOK
  <1>11. HistoryKept
    BY <1>6 DEF HistoryKept
  <1> QED
    BY <1>3, <1>8, <1>9, <1>10, <1>11 DEF Frame

LEMMA FrameBatch ==
  ASSUME TxInv, NEW t \in Batcher, CommitBatch(t)
  PROVE  Frame(t)
  <1>1. t \in Tx /\ EndTransaction(t) /\ MoveVersions(t, handled[t])
    BY DEF CommitBatch, Tx
  <1>2. TxTypeOK /\ TypeOK
    BY DEF TxInv, TablesInv
  <1>3. SessionsKept(t)
    BY <1>1, EndKeepsSessions
  <1>4. \A o \in handled[t] : owner[OrderRow(o)] = t
    BY DEF TxInv, SessionsInv, BatcherInv
  <1>5. UNCHANGED <<payment, request, slotOf, cancelLog, shopVars, keyVars, payVars, timeVars>>
    BY DEF CommitBatch
  <1>6. \A q \in Created : q \notin handled[t] => OrderKept(q)
    BY <1>2, <1>5 DEF CommitBatch, OrderKept, Created, TypeOK
  <1>7. RowsKept(t)
    BY <1>4, <1>5, <1>6 DEF RowsKept, keyVars, shopVars
  <1>8. VersionsKept(t)
    <2>1. \A b \in Batcher \ {t} : outdated'[b] = outdated[b] \cup (handled[t] \cap batch[b])
      BY <1>1, <1>2, VersionsEffect
    <2> QED
      BY <1>6, <2>1 DEF VersionsKept
  <1>9. TimePasses(t)
    BY <1>2, <1>5 DEF TimePasses, timeVars, TypeOK
  <1>10. HistoryKept
    BY <1>5 DEF HistoryKept, payVars
  <1> QED
    BY <1>3, <1>7, <1>8, <1>9, <1>10 DEF Frame

LEMMA FrameOutside ==
  ASSUME TxInv, Outside
  PROVE  Frame(Nobody)
  <1>1. TxTypeOK /\ TypeOK
    BY DEF TxInv, TablesInv
  <1>2. UNCHANGED sessionVars
    BY DEF Outside
  <1>3. SessionsKept(Nobody)
    BY <1>2 DEF SessionsKept, sessionVars
  <1>4. \A b \in Batcher : outdated'[b] = outdated[b]
    BY <1>2 DEF sessionVars
  <1> USE DEF orderVars, shopVars, keyVars, payVars, timeVars
  <1>5. ASSUME UNCHANGED <<orderVars, shopVars, keyVars>>
        PROVE  RowsKept(Nobody) /\ VersionsKept(Nobody)
    BY <1>4, <1>5 DEF RowsKept, VersionsKept, OrderKept
  <1>6. ASSUME UNCHANGED timeVars PROVE TimePasses(Nobody)
    BY <1>1, <1>6 DEF TimePasses, TypeOK
  <1>7. ASSUME UNCHANGED <<orderVars, payVars>> PROVE HistoryKept
    BY <1>7 DEF HistoryKept
  <1>8. ASSUME NEW o \in Order, InitiatePayment(o) \/ CustomerPays(o) PROVE Frame(Nobody)
    <2>1. HistoryKept
      BY <1>1, <1>8 DEF InitiatePayment, CustomerPays, HistoryKept, TypeOK
    <2>2. UNCHANGED <<orderVars, shopVars, keyVars, timeVars>>
      BY <1>8 DEF InitiatePayment, CustomerPays
    <2> QED
      BY <1>3, <1>5, <1>6, <2>1, <2>2 DEF Frame
  <1>9. ASSUME OrderExpires PROVE Frame(Nobody)
    <2>1. TimePasses(Nobody)
      BY <1>1, <1>9 DEF OrderExpires, TimePasses, TypeOK
    <2>2. UNCHANGED <<orderVars, shopVars, keyVars, payVars>>
      BY <1>9 DEF OrderExpires
    <2> QED
      BY <1>3, <1>5, <1>7, <2>1, <2>2 DEF Frame
  <1>10. ASSUME NEW s \in Slot, SlotTime(s), phase[s] = "remind" => ~BeingReserved(s)
         PROVE  Frame(Nobody)
    <2>1. /\ phase' = [phase EXCEPT ![s] = IF @ = "open" THEN "remind" ELSE "due"]
          /\ phase[s] # "due"
          /\ UNCHANGED <<orderVars, shopVars, keyVars, payVars, cutoff>>
      BY <1>10 DEF SlotTime
    <2>2. cutoff <= cutoff'
      BY <1>1, <2>1 DEF TypeOK
    <2>3. \A q \in Slot : /\ phase[q] = "due" => phase'[q] = "due"
                          /\ phase[q] # "open" => phase'[q] # "open"
      BY <1>1, <2>1 DEF TypeOK
    <2>4. ASSUME NEW u \in Client, step[u] \in Inside, AskedRequest(u).slot # NoSlot,
                 phase[AskedRequest(u).slot] # "due"
          PROVE  phase'[AskedRequest(u).slot] # "due"
      <3>1. AskedRequest(u).slot \in Slot
        BY <2>4, AskedValues DEF Inside
      <3>2. CASE AskedRequest(u).slot # s
        BY <1>1, <2>1, <2>4, <3>1, <3>2 DEF TypeOK
      <3>3. CASE AskedRequest(u).slot = s
        <4>1. BeingReserved(s)
          BY <2>4, <3>3 DEF BeingReserved, Inside
        <4>2. phase[s] = "open"
          BY <1>1, <1>10, <2>1, <4>1 DEF TypeOK
        <4> QED
          BY <1>1, <2>1, <3>3, <4>2 DEF TypeOK
      <3> QED
        BY <3>2, <3>3
    <2>5. TimePasses(Nobody)
      BY <2>2, <2>3, <2>4 DEF TimePasses
    <2> QED
      BY <1>3, <1>5, <1>7, <2>1, <2>5 DEF Frame
  <1>11. ASSUME NEW p \in Product, NEW st \in {"in_stock", "sold_out"},
                owner[ProductRow(p)] = Nobody, SetInventoryStatus(p, st)
         PROVE  Frame(Nobody)
    <2>1. /\ inventory' = [inventory EXCEPT ![p] = st]
          /\ UNCHANGED <<orderVars, stock, couponUse, reserved, keyVars, payVars, timeVars>>
      BY <1>11 DEF SetInventoryStatus
    <2>2. RowsKept(Nobody)
      BY <1>1, <1>11, <2>1 DEF RowsKept, OrderKept, TypeOK
    <2>3. VersionsKept(Nobody)
      BY <1>4, <2>1 DEF VersionsKept, OrderKept
    <2> QED
      BY <1>3, <1>6, <1>7, <2>1, <2>2, <2>3 DEF Frame
  <1> QED
    BY <1>8, <1>9, <1>10, <1>11 DEF Outside

-----------------------------------------------------------------------------
(* Under such a step the other transactions keep their part                *)

LEMMA OthersKeepReads ==
  ASSUME TxInv, NEW t, Frame(t), NEW u \in Tx \ {t}
  PROVE  \A row \in DOMAIN view'[u] : owner'[row] = u
  BY DEF TxInv, TxTypeOK, SessionsInv, ReadsAreLocked, Frame, SessionsKept

LEMMA OtherClientKept ==
  ASSUME TxInv, NEW t, Frame(t), NEW u \in Client \ {t}
  PROVE  ClientInv(u)'
  <1>1. /\ u \in Tx \ {t} /\ u \in Client
        /\ TxTypeOK /\ ReadsAreLocked /\ ClientInv(u)
    BY DEF TxInv, SessionsInv, Tx
  <1>2. /\ step'[u] = step[u] /\ todo'[u] = todo[u] /\ view'[u] = view[u]
        /\ asked'[u] = asked[u]
        /\ \A row \in Row : owner[row] = u => owner'[row] = u
    BY <1>1 DEF Frame, SessionsKept
  <1>3. \A row \in DOMAIN view[u] : owner[row] = u
    BY <1>1 DEF ReadsAreLocked
  <1> DEFINE r == AskedRequest(u)
  <1>4. AskedKey(u)' = AskedKey(u) /\ r' = r
    BY <1>2 DEF AskedKey, AskedRequest
  <1>5. ASSUME step[u] \in Inside PROVE ClientHolds(u)'
    <2>1. AskedKey(u) \in Key /\ KeyRow(AskedKey(u)) \in Row
      BY <1>1, <1>5, AskedValues, RowTypes DEF Inside
    <2>2. ClientHolds(u)
      BY <1>1, <1>5 DEF ClientInv
    <2>3. owner'[KeyRow(AskedKey(u))] = u /\ snapshot'[AskedKey(u)] = NoOrder
      BY <1>1, <1>2, <2>1, <2>2 DEF ClientHolds, Frame, RowsKept
    <2>4. r.slot # NoSlot => phase'[r.slot] # "due"
      BY <1>1, <1>5, <2>2 DEF ClientHolds, Frame, TimePasses
    <2> QED
      BY <1>2, <1>4, <2>2, <2>3, <2>4 DEF ClientHolds
  <1>6. ASSUME step[u] \in {"products", "commit"}
        PROVE  ClientSeat(u)' /\ ClientProducts(u)' /\ ClientCoupon(u)'
    <2>1. ClientSeat(u) /\ ClientProducts(u) /\ ClientCoupon(u)
      BY <1>1, <1>6 DEF ClientInv
    <2>2. \A s \in Slot : SlotRow(s) \in DOMAIN view[u] => reserved'[s] = reserved[s]
      BY <1>1, <1>3 DEF Frame, RowsKept
    <2>3. ClientSeat(u)'
      BY <1>2, <1>4, <2>1, <2>2 DEF ClientSeat
    <2>4. \A p \in Product : ProductRow(p) \in DOMAIN view[u] =>
             stock'[p] = stock[p] /\ inventory'[p] = inventory[p]
      BY <1>1, <1>3 DEF Frame, RowsKept
    <2>5. \A p \in Product : ProductAsRead(u, p)' = ProductAsRead(u, p)
      BY <1>2 DEF ProductAsRead
    <2>6. ClientProducts(u)'
      BY <1>2, <1>4, <2>1, <2>4, <2>5 DEF ClientProducts
    <2>7. \A c \in Coupon : CouponRow(c) \in DOMAIN view[u] => couponUse'[c] = couponUse[c]
      BY <1>1, <1>3 DEF Frame, RowsKept
    <2>8. PurchasableAsRead(u) => PurchasableAsRead(u)'
      BY <1>4, <2>5 DEF PurchasableAsRead
    <2>9. ASSUME step[u] = "commit" PROVE CouponUsable(r)'
      <3>1. CouponUsable(r) /\ UsesCoupon(r)
        BY <2>1, <2>9 DEF ClientCoupon
      <3>2. r.coupon \in Coupon
        BY <1>1, <2>9, <3>1, AskedValues
      <3>3. CouponRow(r.coupon) \in DOMAIN view[u]
        BY <2>1, <2>9, <3>2 DEF ClientCoupon
      <3> QED
        BY <1>4, <2>7, <3>1, <3>2, <3>3 DEF CouponUsable
    <2>10. ClientCoupon(u)'
      BY <1>2, <1>4, <2>1, <2>7, <2>8, <2>9 DEF ClientCoupon
    <2> QED
      BY <2>3, <2>6, <2>10
  <1> QED
    BY <1>1, <1>2, <1>5, <1>6 DEF ClientInv

LEMMA OtherSweeperKept ==
  ASSUME TxInv, TypeOK', NEW t, Frame(t), NEW u \in Sweeper \ {t}
  PROVE  SweeperInv(u)'
  <1>1. /\ u \in Tx \ {t} /\ TxTypeOK /\ ReadsAreLocked /\ SweeperInv(u) /\ TypeOK
    BY DEF TxInv, TablesInv, SessionsInv, Tx
  <1>2. /\ step'[u] = step[u] /\ todo'[u] = todo[u] /\ view'[u] = view[u]
        /\ batch'[u] = batch[u] /\ handled'[u] = handled[u]
        /\ \A row \in Row : owner[row] = u => owner'[row] = u
    BY <1>1 DEF Frame, SessionsKept
  <1>3. \A row \in DOMAIN view[u] : owner[row] = u
    BY <1>1 DEF ReadsAreLocked
  <1>4. Current(u)' = Current(u)
    BY <1>2 DEF Current
  <1>5. CASE step[u] = "idle"
    BY <1>1, <1>2, <1>5 DEF SweeperInv
  <1>6. CASE step[u] # "idle"
    <2>1. SweeperOrders(u) /\ SweeperRows(u)
      BY <1>1, <1>6 DEF SweeperInv
    <2>2. ASSUME NEW o \in StalePending, owner[OrderRow(o)] = u
          PROVE  /\ o \in StalePending' /\ owner'[OrderRow(o)] = u
                 /\ slotOf'[o] = slotOf[o] /\ request'[o] = request[o] /\ o \in Order
      <3>1. o \in Created /\ o \in Order
        BY DEF StalePending, Created
      <3>2. OrderKept(o) /\ request'[o] = request[o]
        BY <1>1, <2>2, <3>1 DEF Frame, RowsKept, HistoryKept
      <3>3. cutoff <= cutoff' /\ cutoff \in Int /\ o \in Int /\ o <= cutoff
        BY <1>1 DEF Frame, TimePasses, TypeOK, StalePending, Order
      <3>4. cutoff' \in Int
        BY DEF TypeOK
      <3> QED
        BY <1>2, <2>2, <3>1, <3>2, <3>3, <3>4, RowTypes DEF OrderKept, StalePending
    <2>3. \A o \in handled[u] : o \in StalePending /\ owner[OrderRow(o)] = u
      BY <2>1 DEF SweeperOrders
    <2>4. step[u] = "restore" =>
            Current(u) \in StalePending /\ owner[OrderRow(Current(u))] = u
      BY <2>1 DEF SweeperOrders
    <2>5. SweeperOrders(u)'
      <3>1. step[u] = "restore" => ProductsOf(Current(u))' = ProductsOf(Current(u))
        BY <1>4, <2>2, <2>4 DEF ProductsOf
      <3> QED
        BY <1>2, <1>4, <2>1, <2>2, <2>3, <2>4, <3>1 DEF SweeperOrders
    <2>6. ASSUME NEW p \in Product
          PROVE  Cups(p, Returned(u, p))' = Cups(p, Returned(u, p))
      <3>1. Returned(u, p)' = Returned(u, p)
        BY <1>2, <1>4 DEF Returned
      <3>2. \A o \in Returned(u, p) : request'[o] = request[o]
        BY <2>2, <2>3, <2>4 DEF Returned
      <3> QED
        BY <3>1, <3>2 DEF Cups
    <2>7. ASSUME NEW s \in Slot
          PROVE  (Holders(s) \cap handled[u])' = Holders(s) \cap handled[u]
      BY <1>2, <2>2, <2>3 DEF Holders
    <2>8. \A p \in Product : ProductRow(p) \in DOMAIN view[u] => stock'[p] = stock[p]
      BY <1>1, <1>3 DEF Frame, RowsKept
    <2>9. \A s \in Slot : SlotRow(s) \in DOMAIN view[u] => reserved'[s] = reserved[s]
      BY <1>1, <1>3 DEF Frame, RowsKept
    <2>10. \A p \in Product : ProductAsRead(u, p)' = ProductAsRead(u, p)
      BY <1>2 DEF ProductAsRead
    <2>11. SweeperRows(u)'
      BY <1>2, <2>1, <2>6, <2>7, <2>8, <2>9, <2>10 DEF SweeperRows
    <2> QED
      BY <1>1, <1>2, <1>6, <2>5, <2>11 DEF SweeperInv
  <1> QED
    BY <1>5, <1>6

LEMMA OtherCallbackKept ==
  ASSUME TxInv, NEW t, Frame(t), NEW u \in Callback \ {t}
  PROVE  CallbackInv(u)'
  <1>1. /\ u \in Tx \ {t} /\ TxTypeOK /\ CallbackInv(u)
    BY DEF TxInv, SessionsInv, Tx
  <1>2. /\ step'[u] = step[u] /\ view'[u] = view[u] /\ batch'[u] = batch[u]
        /\ \A row \in Row : owner[row] = u => owner'[row] = u
    BY <1>1 DEF Frame, SessionsKept
  <1>3. \A o \in batch[u] : o \in Order /\ OrderRow(o) \in Row
    BY <1>1, RowTypes DEF TxTypeOK
  <1>4. \A o \in Order : trade[o] = "paid" => trade'[o] = "paid"
    BY DEF Frame, HistoryKept
  <1> QED
    BY <1>1, <1>2, <1>3, <1>4 DEF CallbackInv

LEMMA OtherBatcherKept ==
  ASSUME TxInv, NEW t, Frame(t), NEW u \in Batcher \ {t}
  PROVE  BatcherInv(u)'
  <1>1. /\ u \in Tx \ {t} /\ TxTypeOK /\ BatcherInv(u) /\ TypeOK
    BY DEF TxInv, TablesInv, SessionsInv, Tx
  <1>2. /\ step'[u] = step[u] /\ view'[u] = view[u] /\ batch'[u] = batch[u]
        /\ handled'[u] = handled[u]
        /\ \A row \in Row : owner[row] = u => owner'[row] = u
    BY <1>1 DEF Frame, SessionsKept
  <1>3. ASSUME NEW o \in Order, DueAsRead(u, o), OrderKept(o) PROVE DueAsRead(u, o)'
    <2>1. slotOf[o] \in Slot
      BY <1>1, <1>3 DEF DueAsRead, TypeOK
    <2>2. /\ phase[slotOf[o]] = "due" => phase'[slotOf[o]] = "due"
          /\ phase[slotOf[o]] # "open" => phase'[slotOf[o]] # "open"
      BY <2>1 DEF Frame, TimePasses
    <2> QED
      BY <1>2, <1>3, <2>2 DEF DueAsRead, OrderKept
  <1>4. ASSUME NEW o \in handled[u]
        PROVE  owner'[OrderRow(o)] = u /\ DueAsRead(u, o)'
    <2>1. o \in Order /\ owner[OrderRow(o)] = u /\ DueAsRead(u, o)
      BY <1>1 DEF BatcherInv, TxTypeOK
    <2>2. o \in Created
      BY <2>1 DEF DueAsRead, Created
    <2>3. OrderKept(o)
      BY <1>1, <2>1, <2>2 DEF Frame, RowsKept
    <2> QED
      BY <1>2, <1>3, <2>1, <2>3, RowTypes
  <1>5. ASSUME NEW o \in batch[u] \ outdated'[u] PROVE DueAsRead(u, o)'
    <2>1. o \in Order /\ o \notin outdated[u] /\ (o \in Created => OrderKept(o))
      BY <1>1 DEF Frame, VersionsKept, TxTypeOK
    <2>2. DueAsRead(u, o)
      BY <1>1, <2>1 DEF BatcherInv
    <2>3. o \in Created
      BY <2>1, <2>2 DEF DueAsRead, Created
    <2> QED
      BY <1>3, <2>1, <2>2, <2>3
  <1> QED
    BY <1>1, <1>2, <1>4, <1>5 DEF BatcherInv

-----------------------------------------------------------------------------
(* A transaction keeps its own part                                        *)

Kept(t) ==
  /\ TxTypeOK'
  /\ \A row \in DOMAIN view'[t] : owner'[row] = t
  /\ t \in Client => ClientInv(t)'
  /\ t \in Sweeper => SweeperInv(t)'
  /\ t \in Callback => CallbackInv(t)'
  /\ t \in Batcher => BatcherInv(t)'
  /\ SlotsBeforeRows'
  /\ Frame(t)

LEMMA KeptSuffices ==
  ASSUME TxInv, TablesInv', NEW t \in Tx, Kept(t)
  PROVE  TxInv'
  <1>1. TypeOK'
    BY DEF TablesInv
  <1>2. ReadsAreLocked'
    <2> SUFFICES ASSUME NEW u \in Tx PROVE \A row \in DOMAIN view'[u] : owner'[row] = u
      BY DEF ReadsAreLocked
    <2>1. CASE u # t
      BY <2>1, OthersKeepReads DEF Kept
    <2> QED
      BY <2>1 DEF Kept
  <1>3. \A u \in Client : ClientInv(u)'
    BY OtherClientKept DEF Kept
  <1>4. \A u \in Sweeper : SweeperInv(u)'
    BY <1>1, OtherSweeperKept DEF Kept
  <1>5. \A u \in Callback : CallbackInv(u)'
    BY OtherCallbackKept DEF Kept
  <1>6. \A u \in Batcher : BatcherInv(u)'
    BY OtherBatcherKept DEF Kept
  <1> QED
    BY <1>2, <1>3, <1>4, <1>5, <1>6 DEF Kept, TxInv, SessionsInv

LEMMA EndKeeps ==
  ASSUME TxInv, TypeOK', NEW t \in Tx, EndTransaction(t), Frame(t),
         outdated' \in [Batcher -> SUBSET Order], slotRows' \subseteq Slot, SlotsBeforeRows'
  PROVE  Kept(t)
  <1>1. TxTypeOK
    BY DEF TxInv
  <1>2. TxTypeOK'
    BY <1>1, EndEffect DEF TxTypeOK
  <1>3. /\ step'[t] = "idle" /\ batch'[t] = {} /\ handled'[t] = {} /\ DOMAIN view'[t] = {}
    BY <1>1, EndEffect
  <1>4. ClientInv(t)'
    BY <1>3 DEF ClientInv, Inside
  <1>5. SweeperInv(t)'
    BY <1>3 DEF SweeperInv
  <1>6. CallbackInv(t)'
    BY <1>3 DEF CallbackInv
  <1>7. BatcherInv(t)'
    BY <1>3 DEF BatcherInv
  <1> QED
    BY <1>2, <1>3, <1>4, <1>5, <1>6, <1>7 DEF Kept

LEMMA KindsDiffer ==
  ASSUME NEW t
  PROVE  /\ t \in Client => t \in Tx /\ t \notin Sweeper /\ t \notin Callback /\ t \notin Batcher
         /\ t \in Sweeper => t \in Tx /\ t \notin Client /\ t \notin Callback /\ t \notin Batcher
         /\ t \in Callback => t \in Tx /\ t \notin Client /\ t \notin Sweeper /\ t \notin Batcher
         /\ t \in Batcher => t \in Tx /\ t \notin Client /\ t \notin Sweeper /\ t \notin Callback
  BY SessionsAssumption DEF Tx

(* For a step of a transaction that only locks and reads, its types, its   *)
(* reads and its own part are left to show.                                *)
LEMMA QuietKeeps ==
  ASSUME TxInv, TypeOK', NEW t \in Tx, SessionsKept(t),
         UNCHANGED <<vars, outdated, slotRows>>,
         TxTypeOK', \A row \in DOMAIN view'[t] : owner'[row] = t,
         t \in Client => ClientInv(t)', t \in Sweeper => SweeperInv(t)',
         t \in Callback => CallbackInv(t)', t \in Batcher => BatcherInv(t)'
  PROVE  Kept(t)
  <1>1. Frame(t)
    BY QuietTables
  <1>2. SlotsBeforeRows'
    BY DEF TxInv, SessionsInv, SlotsBeforeRows, vars, shopVars
  <1> QED
    BY <1>1, <1>2 DEF Kept

LEMMA BeginCreateKeeps ==
  ASSUME TxInv, TypeOK', NEW t \in Client, NEW k \in Key, NEW r \in Requests,
         BeginCreate(t, k, r)
  PROVE  Kept(t)
  <1>1. t \in Tx /\ TxTypeOK /\ ReadsAreLocked /\ ClientInv(t)
    BY KindsDiffer DEF TxInv, SessionsInv
  <1>2. /\ step[t] = "idle" /\ step' = [step EXCEPT ![t] = "key"]
        /\ asked' = [asked EXCEPT ![t] = <<k, r>>]
        /\ UNCHANGED <<vars, owner, todo, batch, handled, view, outdated, slotRows>>
    BY DEF BeginCreate
  <1>3. TxTypeOK' /\ SessionsKept(t)
    BY <1>1, <1>2 DEF TxTypeOK, Step, SessionsKept
  <1>4. DOMAIN view'[t] = {} /\ step'[t] = "key" /\ asked'[t] = <<k, r>>
    BY <1>1, <1>2 DEF ClientInv, TxTypeOK
  <1>5. ClientInv(t)'
    BY <1>4 DEF ClientInv, Inside
  <1> QED
    BY <1>1, <1>2, <1>3, <1>4, <1>5, KindsDiffer, QuietKeeps

LEMMA LockKeyKeeps ==
  ASSUME TxInv, TypeOK', NEW t \in Client, LockKey(t)
  PROVE  Kept(t)
  <1> DEFINE k == AskedKey(t)
             r == AskedRequest(t)
             wanted == {p \in Product : r.cups[p] > 0}
  <1>1. t \in Tx /\ TxTypeOK /\ ClientInv(t)
    BY KindsDiffer DEF TxInv, SessionsInv
  <1>2. /\ step[t] = "key" /\ snapshot[k] = NoOrder /\ Plannable(r.slot)
        /\ Lock(t, KeyRow(k))
        /\ step' = [step EXCEPT ![t] = IF r.slot = NoSlot THEN "products" ELSE "slot"]
        /\ todo' = [todo EXCEPT ![t] = wanted]
        /\ UNCHANGED <<vars, asked, batch, handled, view, outdated, slotRows>>
    BY DEF LockKey
  <1>3. k \in Key /\ KeyRow(k) \in Row /\ r.slot \in Slot \cup {NoSlot}
    BY <1>2, AskedValues, RowTypes
  <1>4. /\ owner' \in [Row -> Tx \cup {Nobody}] /\ owner'[KeyRow(k)] = t
        /\ \A q \in Row, u \in Tx \ {t} : owner[q] = u => owner'[q] = u
    BY <1>1, <1>2, <1>3, LockEffect
  <1>5. TxTypeOK' /\ SessionsKept(t)
    BY <1>1, <1>2, <1>4 DEF TxTypeOK, Step, SessionsKept
  <1>6. /\ step'[t] = IF r.slot = NoSlot THEN "products" ELSE "slot"
        /\ todo'[t] = wanted /\ view'[t] = view[t] /\ DOMAIN view[t] = {}
        /\ AskedKey(t)' = k /\ AskedRequest(t)' = r
    BY <1>1, <1>2 DEF ClientInv, TxTypeOK, AskedKey, AskedRequest
  <1>7. snapshot' = snapshot /\ phase' = phase
    BY <1>2 DEF vars, keyVars, timeVars
  <1>8. ClientHolds(t)'
    BY <1>2, <1>4, <1>6, <1>7 DEF ClientHolds, Plannable
  <1>9. ASSUME step'[t] = "products"
        PROVE  ClientSeat(t)' /\ ClientProducts(t)' /\ ClientCoupon(t)'
    <2>1. r.slot = NoSlot
      BY <1>6, <1>9
    <2>2. ClientSeat(t)'
      BY <1>6, <2>1, ValuesAssumption DEF ClientSeat
    <2>3. ClientProducts(t)'
      BY <1>6 DEF ClientProducts
    <2>4. ClientCoupon(t)'
      BY <1>6, <1>9 DEF ClientCoupon
    <2> QED
      BY <2>2, <2>3, <2>4
  <1>10. ClientInv(t)'
    BY <1>1, <1>2, <1>6, <1>8, <1>9 DEF ClientInv, Inside
  <1> QED
    BY <1>1, <1>2, <1>5, <1>6, <1>10, KindsDiffer, QuietKeeps

LEMMA SeatTakenKeeps ==
  ASSUME TxInv, TypeOK', NEW t \in Client, step[t] \in {"slot", "newslot"},
         reserved[AskedRequest(t).slot] < SlotCapacity,
         Lock(t, SlotRow(AskedRequest(t).slot)),
         Reads(t, SlotRow(AskedRequest(t).slot), reserved[AskedRequest(t).slot] + 1),
         step' = [step EXCEPT ![t] = "products"],
         UNCHANGED <<vars, asked, todo, batch, handled, outdated, slotRows>>
  PROVE  Kept(t)
  <1> DEFINE r == AskedRequest(t)
             s == r.slot
  <1>1. t \in Tx /\ TxTypeOK /\ ClientInv(t)
    BY KindsDiffer DEF TxInv, SessionsInv
  <1>2. /\ ClientHolds(t) /\ DOMAIN view[t] = {} /\ s # NoSlot
        /\ todo[t] = {p \in Product : r.cups[p] > 0}
    BY <1>1 DEF ClientInv, ClientHolds, Inside
  <1>3. s \in Slot /\ SlotRow(s) \in Row /\ AskedKey(t) \in Key /\ KeyRow(AskedKey(t)) \in Row
    BY <1>2, AskedValues, RowTypes
  <1>4. /\ owner' \in [Row -> Tx \cup {Nobody}] /\ owner'[SlotRow(s)] = t
        /\ \A q \in Row : owner[q] = t => owner'[q] = t
        /\ \A q \in Row, u \in Tx \ {t} : owner[q] = u => owner'[q] = u
    BY <1>1, <1>3, LockEffect
  <1>5. /\ DOMAIN view' = Tx
        /\ \A u \in Tx : DOMAIN view'[u] \subseteq Row
        /\ \A u \in Tx \ {t} : view'[u] = view[u]
        /\ DOMAIN view'[t] = {SlotRow(s)}
        /\ view'[t][SlotRow(s)] = reserved[s] + 1
    BY <1>1, <1>2, <1>3, ReadsEffect
  <1>6. TxTypeOK' /\ SessionsKept(t)
    BY <1>1, <1>4, <1>5 DEF TxTypeOK, Step, SessionsKept
  <1>7. /\ step'[t] = "products" /\ AskedKey(t)' = AskedKey(t) /\ AskedRequest(t)' = r
        /\ todo'[t] = todo[t] /\ reserved' = reserved /\ snapshot' = snapshot /\ phase' = phase
    BY <1>1 DEF TxTypeOK, AskedKey, AskedRequest, vars, shopVars, keyVars, timeVars
  <1>8. ClientHolds(t)'
    BY <1>2, <1>3, <1>4, <1>7 DEF ClientHolds
  <1>9. ClientSeat(t)'
    BY <1>5, <1>7, RowsDiffer DEF ClientSeat
  <1>10. ClientProducts(t)'
    BY <1>2, <1>5, <1>7, RowsDiffer DEF ClientProducts
  <1>11. ClientCoupon(t)'
    BY <1>5, <1>7, RowsDiffer DEF ClientCoupon
  <1>12. ClientInv(t)'
    BY <1>1, <1>7, <1>8, <1>9, <1>10, <1>11 DEF ClientInv, Inside
  <1> QED
    BY <1>1, <1>4, <1>5, <1>6, <1>12, KindsDiffer, QuietKeeps

LEMMA TakeSeatKeeps ==
  ASSUME TxInv, TypeOK', NEW t \in Client, TakeSeat(t) \/ InsertSlotRow(t)
  PROVE  Kept(t)
  <1> DEFINE s == AskedRequest(t).slot
  <1>1. CASE TakeSeat(t)
    BY <1>1, SeatTakenKeeps DEF TakeSeat
  <1>2. CASE InsertSlotRow(t)
    <2>1. /\ step[t] = "newslot" /\ s \notin slotRows /\ SlotCapacity > 0
          /\ Lock(t, SlotRow(s)) /\ Reads(t, SlotRow(s), 1)
          /\ step' = [step EXCEPT ![t] = "products"]
          /\ UNCHANGED <<vars, asked, todo, batch, handled, outdated, slotRows>>
      BY <1>2 DEF InsertSlotRow
    <2>2. s # NoSlot
      BY <2>1 DEF TxInv, SessionsInv, ClientInv, ClientHolds, Inside
    <2>3. s \in Slot
      BY <2>1, <2>2, AskedValues
    <2>4. reserved[s] = 0
      BY <2>1, <2>3 DEF TxInv, SessionsInv, SlotsBeforeRows
    <2>5. reserved[s] + 1 = 1 /\ reserved[s] < SlotCapacity
      BY <2>1, <2>4
    <2> QED
      BY <2>1, <2>5, SeatTakenKeeps
  <1> QED
    BY <1>1, <1>2

LEMMA MissSlotRowKeeps ==
  ASSUME TxInv, TypeOK', NEW t \in Client, MissSlotRow(t)
  PROVE  Kept(t)
  <1>1. t \in Tx /\ TxTypeOK /\ ReadsAreLocked /\ ClientInv(t)
    BY KindsDiffer DEF TxInv, SessionsInv
  <1>2. /\ step[t] = "slot" /\ step' = [step EXCEPT ![t] = "newslot"]
        /\ UNCHANGED <<vars, owner, asked, todo, batch, handled, view, outdated, slotRows>>
    BY DEF MissSlotRow
  <1>3. TxTypeOK' /\ SessionsKept(t) /\ step'[t] = "newslot"
    BY <1>1, <1>2 DEF TxTypeOK, Step, SessionsKept
  <1>4. ClientHolds(t)
    BY <1>1, <1>2 DEF ClientInv, Inside
  <1>5. ClientHolds(t)'
    BY <1>2, <1>3, <1>4
       DEF ClientHolds, AskedKey, AskedRequest, vars, keyVars, timeVars
  <1>6. ClientInv(t)'
    BY <1>1, <1>2, <1>3, <1>5 DEF ClientInv, Inside
  <1> QED
    BY <1>1, <1>2, <1>3, <1>6, KindsDiffer, QuietKeeps DEF ReadsAreLocked

LEMMA LockProductKeeps ==
  ASSUME TxInv, TypeOK', NEW t \in Client, NEW p \in Product, LockProduct(t, p)
  PROVE  Kept(t)
  <1> DEFINE r == AskedRequest(t)
             value == [stock |-> stock[p], inventory |-> inventory[p]]
  <1>1. t \in Tx /\ TxTypeOK /\ ReadsAreLocked /\ ClientInv(t)
    BY KindsDiffer DEF TxInv, SessionsInv
  <1>2. /\ step[t] = "products" /\ p \in todo[t]
        /\ Lock(t, ProductRow(p)) /\ Reads(t, ProductRow(p), value)
        /\ todo' = [todo EXCEPT ![t] = @ \ {p}]
        /\ UNCHANGED <<vars, step, asked, batch, handled, outdated, slotRows>>
    BY DEF LockProduct
  <1>3. ClientHolds(t) /\ ClientSeat(t) /\ ClientProducts(t) /\ ClientCoupon(t)
    BY <1>1, <1>2 DEF ClientInv, Inside
  <1>4. ProductRow(p) \in Row /\ AskedKey(t) \in Key /\ KeyRow(AskedKey(t)) \in Row
    BY <1>2, AskedValues, RowTypes
  <1> HIDE DEF value
  <1>5. /\ owner' \in [Row -> Tx \cup {Nobody}] /\ owner'[ProductRow(p)] = t
        /\ \A q \in Row : owner[q] = t => owner'[q] = t
        /\ \A q \in Row, u \in Tx \ {t} : owner[q] = u => owner'[q] = u
    BY <1>1, <1>2, <1>4, LockEffect
  <1>6. /\ DOMAIN view' = Tx
        /\ \A u \in Tx : DOMAIN view'[u] \subseteq Row
        /\ \A u \in Tx \ {t} : view'[u] = view[u]
        /\ DOMAIN view'[t] = DOMAIN view[t] \cup {ProductRow(p)}
        /\ view'[t][ProductRow(p)] = value
        /\ \A q \in DOMAIN view[t] : q # ProductRow(p) => view'[t][q] = view[t][q]
    BY <1>1, <1>2, <1>4, ReadsEffect
  <1>7. TxTypeOK' /\ SessionsKept(t)
    BY <1>1, <1>2, <1>5, <1>6 DEF TxTypeOK, Step, SessionsKept
  <1>8. /\ step' = step /\ AskedKey(t)' = AskedKey(t) /\ AskedRequest(t)' = r
        /\ todo'[t] = todo[t] \ {p} /\ asked' = asked
        /\ reserved' = reserved /\ snapshot' = snapshot /\ phase' = phase
        /\ stock' = stock /\ inventory' = inventory
    BY <1>1, <1>2 DEF TxTypeOK, AskedKey, AskedRequest, vars, shopVars, keyVars, timeVars
  <1>9. ClientHolds(t)'
    BY <1>2, <1>3, <1>4, <1>5, <1>8 DEF ClientHolds
  <1>10. ClientSeat(t)'
    BY <1>3, <1>6, <1>8, RowsDiffer DEF ClientSeat
  <1>11. ClientProducts(t)'
    <2> SUFFICES ASSUME NEW q \in Product
                 PROVE  /\ ProductRow(q) \in DOMAIN view'[t] <=>
                             r.cups[q] > 0 /\ q \notin todo'[t]
                        /\ ProductRow(q) \in DOMAIN view'[t] =>
                             view'[t][ProductRow(q)] =
                               [stock |-> stock[q], inventory |-> inventory[q]]
      BY <1>8 DEF ClientProducts, ProductAsRead
    <2>1. CASE q = p
      BY <1>2, <1>3, <1>6, <1>8, <2>1 DEF ClientHolds, value
    <2>2. CASE q # p
      <3>1. ProductRow(q) # ProductRow(p)
        BY <2>2, RowsDiffer
      <3> QED
        BY <1>3, <1>6, <1>8, <2>2, <3>1 DEF ClientProducts, ProductAsRead
    <2> QED
      BY <2>1, <2>2
  <1>12. ClientCoupon(t)'
    BY <1>2, <1>3, <1>6, <1>8, RowsDiffer DEF ClientCoupon
  <1>13. ClientInv(t)'
    BY <1>1, <1>2, <1>8, <1>9, <1>10, <1>11, <1>12 DEF ClientInv, Inside
  <1>14. \A row \in DOMAIN view'[t] : owner'[row] = t
    BY <1>1, <1>5, <1>6 DEF ReadsAreLocked, TxTypeOK
  <1> QED
    BY <1>1, <1>2, <1>7, <1>13, <1>14, KindsDiffer, QuietKeeps

LEMMA LockCouponKeeps ==
  ASSUME TxInv, TypeOK', NEW t \in Client, LockCoupon(t)
  PROVE  Kept(t)
  <1> DEFINE r == AskedRequest(t)
             c == r.coupon
  <1>1. t \in Tx /\ TxTypeOK /\ ReadsAreLocked /\ ClientInv(t)
    BY KindsDiffer DEF TxInv, SessionsInv
  <1>2. /\ step[t] = "products" /\ todo[t] = {} /\ PurchasableAsRead(t)
        /\ UsesCoupon(r) /\ CouponUsable(r)
        /\ Lock(t, CouponRow(c)) /\ Reads(t, CouponRow(c), NoOrder)
        /\ step' = [step EXCEPT ![t] = "commit"]
        /\ UNCHANGED <<vars, asked, todo, batch, handled, outdated, slotRows>>
    BY DEF LockCoupon
  <1>3. ClientHolds(t) /\ ClientSeat(t) /\ ClientProducts(t) /\ ClientCoupon(t)
    BY <1>1, <1>2 DEF ClientInv, Inside
  <1>4. /\ c \in Coupon /\ CouponRow(c) \in Row
        /\ AskedKey(t) \in Key /\ KeyRow(AskedKey(t)) \in Row
    BY <1>2, AskedValues, RowTypes
  <1>5. /\ owner' \in [Row -> Tx \cup {Nobody}] /\ owner'[CouponRow(c)] = t
        /\ \A q \in Row : owner[q] = t => owner'[q] = t
        /\ \A q \in Row, u \in Tx \ {t} : owner[q] = u => owner'[q] = u
    BY <1>1, <1>2, <1>4, LockEffect
  <1>6. /\ DOMAIN view' = Tx
        /\ \A u \in Tx : DOMAIN view'[u] \subseteq Row
        /\ \A u \in Tx \ {t} : view'[u] = view[u]
        /\ DOMAIN view'[t] = DOMAIN view[t] \cup {CouponRow(c)}
        /\ \A q \in DOMAIN view[t] : q # CouponRow(c) => view'[t][q] = view[t][q]
    BY <1>1, <1>2, <1>4, ReadsEffect
  <1>7. TxTypeOK' /\ SessionsKept(t)
    BY <1>1, <1>2, <1>5, <1>6 DEF TxTypeOK, Step, SessionsKept
  <1>8. /\ step'[t] = "commit" /\ AskedKey(t)' = AskedKey(t) /\ AskedRequest(t)' = r
        /\ todo'[t] = {} /\ asked' = asked
        /\ reserved' = reserved /\ snapshot' = snapshot /\ phase' = phase
        /\ stock' = stock /\ inventory' = inventory /\ couponUse' = couponUse
    BY <1>1, <1>2 DEF TxTypeOK, AskedKey, AskedRequest, vars, shopVars, keyVars, timeVars
  <1>9. ClientHolds(t)'
    BY <1>2, <1>3, <1>4, <1>5, <1>8 DEF ClientHolds
  <1>10. ClientSeat(t)'
    BY <1>3, <1>6, <1>8, RowsDiffer DEF ClientSeat
  <1>11. \A p \in Product :
           /\ ProductRow(p) \in DOMAIN view'[t] <=> ProductRow(p) \in DOMAIN view[t]
           /\ ProductRow(p) \in DOMAIN view[t] => ProductAsRead(t, p)' = ProductAsRead(t, p)
    BY <1>6, RowsDiffer DEF ProductAsRead
  <1>12. ClientProducts(t)'
    BY <1>2, <1>3, <1>8, <1>11 DEF ClientProducts
  <1>13. PurchasableAsRead(t)'
    BY <1>2, <1>3, <1>8, <1>11 DEF PurchasableAsRead, ClientProducts
  <1>14. \A d \in Coupon : CouponRow(d) \in DOMAIN view'[t] <=> d = c
    BY <1>2, <1>3, <1>6, RowsDiffer DEF ClientCoupon
  <1>15. couponUse[c] = NoOrder /\ CouponUsable(r)'
    BY <1>2, <1>8 DEF CouponUsable
  <1>16. ClientCoupon(t)'
    BY <1>2, <1>8, <1>13, <1>14, <1>15 DEF ClientCoupon
  <1>17. ClientInv(t)'
    BY <1>1, <1>2, <1>8, <1>9, <1>10, <1>12, <1>16 DEF ClientInv, Inside
  <1>18. \A row \in DOMAIN view'[t] : owner'[row] = t
    BY <1>1, <1>5, <1>6 DEF ReadsAreLocked, TxTypeOK
  <1> QED
    BY <1>1, <1>2, <1>7, <1>17, <1>18, KindsDiffer, QuietKeeps

LEMMA CommitCreateKeeps ==
  ASSUME TxInv, TypeOK', NEW t \in Client, CommitCreate(t)
  PROVE  Kept(t)
  <1> DEFINE r == AskedRequest(t)
  <1>1. TxTypeOK /\ t \in Tx /\ ReadyToInsert(t)
    BY KindsDiffer DEF TxInv, CommitCreate
  <1>2. EndTransaction(t) /\ MoveVersions(t, {}) /\ slotRows' = slotRows \cup ({r.slot} \ {NoSlot})
    BY DEF CommitCreate
  <1>3. outdated' \in [Batcher -> SUBSET Order]
    BY <1>1, <1>2, VersionsEffect
  <1>4. r.slot \in Slot \cup {NoSlot}
    BY <1>1, ReadyClient, AskedValues
  <1>5. slotRows' \subseteq Slot
    BY <1>1, <1>2, <1>4 DEF TxTypeOK
  <1>6. ReserveSlot(r.slot)
    BY CommitCreateImplements DEF CreateOrder, CreateOrderUnder
  <1>7. SlotsBeforeRows'
    BY <1>2, <1>6, ValuesAssumption DEF ReserveSlot, SlotsBeforeRows, TxInv, SessionsInv
  <1> QED
    BY <1>1, <1>2, <1>3, <1>5, <1>7, FrameCreate, EndKeeps

LEMMA AnswerFromKeyKeeps ==
  ASSUME TxInv, TypeOK', NEW t \in Client, AnswerFromKey(t)
  PROVE  Kept(t)
  <1>1. TxTypeOK /\ TypeOK /\ t \in Tx
    BY KindsDiffer DEF TxInv, TablesInv
  <1>2. /\ ReplayOrder(AskedKey(t), AskedRequest(t)) /\ EndTransaction(t)
        /\ MoveVersions(t, {}) /\ slotRows' = slotRows
    BY DEF AnswerFromKey
  <1>3. UNCHANGED <<orderVars, shopVars, snapshot, payVars, timeVars>>
    BY <1>2 DEF ReplayOrder
  <1>4. /\ outdated' \in [Batcher -> SUBSET Order]
        /\ \A b \in Batcher \ {t} : outdated'[b] = outdated[b] \cup ({} \cap batch[b])
    BY <1>1, <1>2, VersionsEffect
  <1>5. Frame(t)
    <2> USE DEF orderVars, shopVars, payVars, timeVars
    <2>1. SessionsKept(t)
      BY <1>1, <1>2, EndKeepsSessions
    <2>2. RowsKept(t) /\ VersionsKept(t) /\ HistoryKept
      BY <1>3, <1>4 DEF RowsKept, OrderKept, VersionsKept, HistoryKept
    <2>3. TimePasses(t)
      BY <1>1, <1>3 DEF TimePasses, TypeOK
    <2> QED
      BY <2>1, <2>2, <2>3 DEF Frame
  <1>6. SlotsBeforeRows' /\ slotRows' \subseteq Slot
    BY <1>1, <1>2, <1>3 DEF SlotsBeforeRows, TxInv, SessionsInv, shopVars, TxTypeOK
  <1> QED
    BY <1>1, <1>2, <1>4, <1>5, <1>6, EndKeeps

LEMMA RollbackKeeps ==
  ASSUME TxInv, TypeOK', NEW t \in Tx, Rollback(t)
  PROVE  Kept(t)
  <1>1. TxTypeOK
    BY DEF TxInv
  <1>2. EndTransaction(t) /\ MoveVersions(t, {}) /\ UNCHANGED <<vars, slotRows>>
    BY DEF Rollback
  <1>3. /\ outdated' \in [Batcher -> SUBSET Order]
        /\ \A b \in Batcher \ {t} : outdated'[b] = outdated[b] \cup ({} \cap batch[b])
    BY <1>1, <1>2, VersionsEffect
  <1>4. Frame(t)
    BY <1>2, <1>3, EndKeepsSessions, QuietTables
  <1>5. SlotsBeforeRows' /\ slotRows' \subseteq Slot
    BY <1>1, <1>2 DEF SlotsBeforeRows, TxInv, SessionsInv, vars, shopVars, TxTypeOK
  <1> QED
    BY <1>2, <1>3, <1>4, <1>5, EndKeeps

LEMMA CupsOfUnordered ==
  ASSUME TypeOK, NEW o \in Order, NEW p \in Product, NEW S,
         request[o].cups[p] \in Nat, ~ (request[o].cups[p] > 0)
  PROVE  Cups(p, S \cup {o}) = Cups(p, S)
  <1>1. \A n \in 1..MaxQty : ~ (n <= request[o].cups[p])
    BY BoundsAssumption
  <1> QED
    BY <1>1 DEF Cups

LEMMA CupsOfOneMore ==
  ASSUME TypeOK, NEW S \in SUBSET Order, NEW o \in Order, o \notin S, NEW p \in Product,
         request[o].cups[p] \in 0..MaxQty
  PROVE  Cardinality(Cups(p, S \cup {o})) = Cardinality(Cups(p, S)) + request[o].cups[p]
  <1> DEFINE New == {o} \X (1..request[o].cups[p])
  <1>0. \A n : n \in 1..request[o].cups[p] <=> n \in 1..MaxQty /\ n <= request[o].cups[p]
    BY BoundsAssumption
  <1>1. Cups(p, S \cup {o}) = Cups(p, S) \cup New
    <2>1. \A c : c \in Cups(p, S \cup {o}) <=> c \in Cups(p, S) \/ c \in New
      BY <1>0 DEF Cups
    <2> QED
      BY <2>1
  <1>2. Cups(p, S) \cap New = {}
    BY DEF Cups
  <1>3. IsFiniteSet(New) /\ Cardinality(New) = request[o].cups[p]
    <2>1. request[o].cups[p] \in Nat
      BY BoundsAssumption
    <2> QED
      BY <2>1, CupsOfOneOrder
  <1>4. IsFiniteSet(Cups(p, S))
    BY CardinalityInBatch
  <1> HIDE DEF New
  <1> QED
    BY <1>1, <1>2, <1>3, <1>4, DisjointCardinality

(* The items of an order that is there can be read.                        *)
LEMMA StaleRequest ==
  ASSUME TypeOK, RowsAgree, NEW o \in StalePending
  PROVE  /\ o \in Order
         /\ \A p \in Product : request[o].cups[p] \in 0..MaxQty /\ request[o].cups[p] \in Nat
  <1>1. o \in Order /\ request[o] \in Requests
    BY DEF StalePending, RowsAgree, TypeOK
  <1>2. request[o].cups \in [Product -> 0..MaxQty]
    BY <1>1, RequestFields
  <1> QED
    BY <1>1, <1>2, BoundsAssumption

LEMMA OldestStaleBounded == TypeOK => Cardinality(OldestStale) <= BatchLimit
  <1> SUFFICES ASSUME TypeOK, OldestStale # {}
               PROVE  Cardinality(OldestStale) <= BatchLimit
    BY FS_EmptySet, BoundsAssumption
  <1> DEFINE T == {MaxOrders - o : o \in OldestStale}
  <1>1. OldestStale \subseteq StalePending /\ StalePending \subseteq Order
    BY DEF OldestStale, StalePending
  <1>2. \A o \in OldestStale : o \in Nat /\ MaxOrders - o \in Nat
    BY <1>1, BoundsAssumption DEF Order
  <1>3. \E x \in T : \A y \in T : x <= y
    BY <1>2, LeastElement
  <1>4. PICK m \in OldestStale : \A o \in OldestStale : MaxOrders - m <= MaxOrders - o
    BY <1>3
  <1>5. \A o \in OldestStale : o <= m
    BY <1>2, <1>4, BoundsAssumption
  <1> DEFINE Earlier == {q \in StalePending : q < m}
  <1>6. OldestStale \subseteq Earlier \cup {m}
    BY <1>1, <1>2, <1>5
  <1>7. Cardinality(Earlier) < BatchLimit
    BY DEF OldestStale
  <1>8. Earlier \subseteq Order /\ m \notin Earlier
    BY <1>1, <1>2
  <1> HIDE DEF Earlier
  <1>9. IsFiniteSet(Order)
    BY BoundsAssumption, FS_Interval DEF Order
  <1>10. IsFiniteSet(Earlier) /\ Cardinality(Earlier) \in Nat
    BY <1>8, <1>9, FS_Subset, FS_CardinalityType
  <1>11. /\ IsFiniteSet(Earlier \cup {m})
         /\ Cardinality(Earlier \cup {m}) = Cardinality(Earlier) + 1
    BY <1>8, <1>10, FS_AddElement
  <1>12. /\ Cardinality(OldestStale) <= Cardinality(Earlier \cup {m})
         /\ Cardinality(OldestStale) \in Nat
    BY <1>6, <1>11, FS_Subset, FS_CardinalityType
  <1> QED
    BY <1>7, <1>10, <1>11, <1>12, BoundsAssumption

LEMMA SmallerCardinality ==
  ASSUME NEW S \in SUBSET Order, NEW T, T \subseteq S, Cardinality(S) <= BatchLimit
  PROVE  Cardinality(T) <= BatchLimit
  <1>0. IsFiniteSet(Order)
    BY BoundsAssumption, FS_Interval DEF Order
  <1>1. IsFiniteSet(S)
    BY <1>0, FS_Subset
  <1>2. Cardinality(T) <= Cardinality(S) /\ IsFiniteSet(T)
    BY <1>1, FS_Subset
  <1>3. Cardinality(T) \in Nat /\ Cardinality(S) \in Nat
    BY <1>1, <1>2, FS_CardinalityType
  <1> QED
    BY <1>2, <1>3, BoundsAssumption

LEMMA SelectStaleKeeps ==
  ASSUME TxInv, TypeOK', NEW t \in Sweeper, SelectStale(t)
  PROVE  Kept(t)
  <1>1. t \in Tx /\ TxTypeOK /\ TypeOK /\ ReadsAreLocked /\ SweeperInv(t)
    BY KindsDiffer DEF TxInv, TablesInv, SessionsInv
  <1>2. /\ step[t] = "idle" /\ step' = [step EXCEPT ![t] = "orders"]
        /\ batch' = [batch EXCEPT ![t] = OldestStale]
        /\ UNCHANGED <<vars, owner, asked, todo, handled, view, outdated, slotRows>>
    BY DEF SelectStale
  <1>3. OldestStale \subseteq Order
    BY DEF OldestStale, StalePending
  <1>4. TxTypeOK' /\ SessionsKept(t)
    BY <1>1, <1>2, <1>3 DEF TxTypeOK, Step, SessionsKept
  <1>5. /\ step'[t] = "orders" /\ batch'[t] = OldestStale /\ handled'[t] = {}
        /\ DOMAIN view'[t] = {}
    BY <1>1, <1>2 DEF SweeperInv, TxTypeOK
  <1>6. batch'[t] \cup handled'[t] = OldestStale
    BY <1>5
  <1>7. SweeperOrders(t)'
    BY <1>1, <1>5, <1>6, OldestStaleBounded DEF SweeperOrders
  <1>8. \A p \in Product : Cups(p, Returned(t, p))' = {}
    BY <1>5 DEF Returned, Cups
  <1>9. \A s \in Slot : (Holders(s) \cap handled[t])' = {}
    BY <1>5
  <1>10. SweeperRows(t)'
    BY <1>5, <1>8, <1>9 DEF SweeperRows
  <1>11. SweeperInv(t)'
    BY <1>5, <1>7, <1>10 DEF SweeperInv
  <1> QED
    BY <1>1, <1>2, <1>4, <1>5, <1>11, KindsDiffer, QuietKeeps

LEMMA LockStaleKeeps ==
  ASSUME TxInv, TypeOK', NEW t \in Sweeper, LockStale(t)
  PROVE  Kept(t)
  <1> DEFINE o == Current(t)
  <1>1. t \in Tx /\ TxTypeOK /\ TypeOK /\ RowsAgree /\ ReadsAreLocked /\ SweeperInv(t)
    BY KindsDiffer DEF TxInv, TablesInv, SessionsInv
  <1>2. /\ step[t] = "orders" /\ batch[t] # {} /\ Lock(t, OrderRow(o))
        /\ UNCHANGED <<vars, asked, handled, view, outdated, slotRows>>
    BY DEF LockStale
  <1>3. SweeperOrders(t) /\ SweeperRows(t)
    BY <1>1, <1>2 DEF SweeperInv
  <1>4. o \in batch[t] /\ o \in Order /\ OrderRow(o) \in Row
    BY <1>1, <1>2, CurrentIsLeast, RowTypes DEF TxTypeOK
  <1>5. /\ owner' \in [Row -> Tx \cup {Nobody}] /\ owner'[OrderRow(o)] = t
        /\ \A q \in Row : owner[q] = t => owner'[q] = t
        /\ \A q \in Row, u \in Tx \ {t} : owner[q] = u => owner'[q] = u
    BY <1>1, <1>2, <1>4, LockEffect
  <1>6. /\ handled' = handled /\ view' = view /\ request' = request /\ slotOf' = slotOf
        /\ stock' = stock /\ reserved' = reserved /\ StalePending' = StalePending
    BY <1>2 DEF vars, orderVars, shopVars, timeVars, StalePending
  <1>7. \A q \in handled[t] : q \in Order /\ owner'[OrderRow(q)] = t
    BY <1>1, <1>3, <1>5, RowTypes DEF SweeperOrders, TxTypeOK
  <1>8. \A row \in DOMAIN view'[t] : owner'[row] = t
    BY <1>1, <1>5, <1>6 DEF ReadsAreLocked, TxTypeOK
  <1>9. ASSUME \A p \in Product : Cups(p, Returned(t, p))' = Cups(p, Returned(t, p))
        PROVE  SweeperRows(t)'
    <2>1. \A s \in Slot : (Holders(s) \cap handled[t])' = Holders(s) \cap handled[t]
      BY <1>6 DEF Holders
    <2>2. \A p \in Product : ProductAsRead(t, p)' = ProductAsRead(t, p)
      BY <1>6 DEF ProductAsRead
    <2> QED
      BY <1>3, <1>6, <1>9, <2>1, <2>2 DEF SweeperRows
  <1>10. \A p \in Product : Returned(t, p) = handled[t]
    BY <1>2 DEF Returned
  <1>11. CASE o \in StalePending
    <2>1. /\ step' = [step EXCEPT ![t] = "restore"]
          /\ todo' = [todo EXCEPT ![t] = ProductsOf(o)]
          /\ batch' = batch
      BY <1>11 DEF LockStale
    <2>2. ProductsOf(o) \subseteq Product
      BY DEF ProductsOf
    <2>3. TxTypeOK' /\ SessionsKept(t)
      BY <1>1, <1>2, <1>5, <2>1, <2>2 DEF TxTypeOK, Step, SessionsKept
    <2>4. /\ step'[t] = "restore" /\ todo'[t] = ProductsOf(o) /\ Current(t)' = o
          /\ ProductsOf(Current(t))' = ProductsOf(o)
      BY <1>1, <1>6, <2>1 DEF TxTypeOK, Current, ProductsOf
    <2>5. SweeperOrders(t)'
      BY <1>3, <1>4, <1>5, <1>6, <1>7, <1>11, <2>1, <2>4 DEF SweeperOrders
    <2>6. ASSUME NEW p \in Product
          PROVE  Cups(p, Returned(t, p))' = Cups(p, Returned(t, p))
      <3>1. CASE p \in todo'[t]
        <4>1. Returned(t, p)' = handled[t]
          BY <1>6, <3>1 DEF Returned
        <4> QED
          BY <1>6, <1>10, <4>1 DEF Cups
      <3>2. CASE p \notin todo'[t]
        <4>1. Returned(t, p)' = handled[t] \cup {o}
          BY <1>4, <1>6, <2>1, <2>4, <3>2 DEF Returned
        <4>2. ~ (request[o].cups[p] > 0) /\ request[o].cups[p] \in Nat
          BY <1>1, <1>11, <2>4, <3>2, StaleRequest DEF ProductsOf
        <4>3. Cups(p, handled[t] \cup {o}) = Cups(p, handled[t])
          BY <1>1, <1>4, <4>2, CupsOfUnordered
        <4>4. Cups(p, Returned(t, p))' = Cups(p, handled[t] \cup {o})
          BY <1>6, <4>1 DEF Cups
        <4> QED
          BY <1>10, <4>3, <4>4
      <3> QED
        BY <3>1, <3>2
    <2>7. SweeperInv(t)'
      BY <1>9, <2>4, <2>5, <2>6 DEF SweeperInv
    <2> QED
      BY <1>1, <1>2, <1>8, <2>3, <2>7, KindsDiffer, QuietKeeps
  <1>12. CASE o \notin StalePending
    <2>1. /\ batch' = [batch EXCEPT ![t] = @ \ {o}]
          /\ step' = step /\ todo' = todo
      BY <1>12 DEF LockStale
    <2>2. TxTypeOK' /\ SessionsKept(t)
      BY <1>1, <1>2, <1>5, <2>1 DEF TxTypeOK, SessionsKept
    <2>3. step'[t] = "orders" /\ batch'[t] = batch[t] \ {o}
      BY <1>1, <1>2, <2>1 DEF TxTypeOK
    <2>4. Cardinality(batch'[t] \cup handled'[t]) <= BatchLimit
      <3>1. batch[t] \cup handled[t] \in SUBSET Order
        BY <1>1 DEF TxTypeOK
      <3>2. batch'[t] \cup handled'[t] \subseteq batch[t] \cup handled[t]
        BY <1>6, <2>3
      <3>3. Cardinality(batch[t] \cup handled[t]) <= BatchLimit
        BY <1>3 DEF SweeperOrders
      <3> QED
        BY <3>1, <3>2, <3>3, SmallerCardinality
    <2>5. SweeperOrders(t)'
      BY <1>3, <1>6, <1>7, <2>3, <2>4 DEF SweeperOrders
    <2>6. \A p \in Product : Returned(t, p)' = handled[t]
      BY <1>6, <2>3 DEF Returned
    <2>7. \A p \in Product : Cups(p, Returned(t, p))' = Cups(p, Returned(t, p))
      BY <1>6, <1>10, <2>6 DEF Cups
    <2>8. SweeperInv(t)'
      BY <1>9, <2>3, <2>5, <2>7 DEF SweeperInv
    <2> QED
      BY <1>1, <1>2, <1>8, <2>2, <2>8, KindsDiffer, QuietKeeps
  <1> QED
    BY <1>11, <1>12

LEMMA RestoreProductKeeps ==
  ASSUME TxInv, TypeOK', NEW t \in Sweeper, NEW p \in Product, RestoreProduct(t, p)
  PROVE  Kept(t)
  <1> DEFINE o == Current(t)
             S == handled[t]
             value == [stock |-> StockAsRead(t)[p] + request[o].cups[p],
                       inventory |-> "in_stock"]
  <1>1. t \in Tx /\ TxTypeOK /\ TypeOK /\ RowsAgree /\ ReadsAreLocked /\ SweeperInv(t)
    BY KindsDiffer DEF TxInv, TablesInv, SessionsInv
  <1>2. /\ step[t] = "restore" /\ p \in todo[t]
        /\ Lock(t, ProductRow(p)) /\ Reads(t, ProductRow(p), value)
        /\ todo' = [todo EXCEPT ![t] = @ \ {p}]
        /\ UNCHANGED <<vars, step, asked, batch, handled, outdated, slotRows>>
    BY DEF RestoreProduct
  <1>3. SweeperOrders(t) /\ SweeperRows(t)
    BY <1>1, <1>2 DEF SweeperInv
  <1>4. /\ batch[t] # {} /\ o \in StalePending /\ owner[OrderRow(o)] = t
        /\ p \in ProductsOf(o) /\ o \in batch[t] /\ o \notin S /\ o \in Order
        /\ S \in SUBSET Order
    BY <1>1, <1>2, <1>3, CurrentIsLeast DEF SweeperOrders, TxTypeOK
  <1>5. request[o].cups[p] \in 0..MaxQty /\ request[o].cups[p] \in Nat /\ request[o].cups[p] > 0
    BY <1>1, <1>4, StaleRequest DEF ProductsOf
  <1>6. ProductRow(p) \in Row /\ OrderRow(o) \in Row
    BY <1>4, RowTypes
  <1>7. value = [stock |-> stock[p] + Cardinality(Cups(p, S \cup {o})),
                 inventory |-> "in_stock"]
        /\ Cups(p, S \cup {o}) # {}
    <2> DEFINE n == Cardinality(Cups(p, S))
    <2>1. stock[p] \in Nat /\ n \in Nat /\ (Cups(p, S) = {} => n = 0)
      BY <1>1, <1>4, CardinalityInBatch, FS_EmptySet DEF TypeOK
    <2>2. Returned(t, p) = S
      BY <1>2 DEF Returned
    <2>3. StockAsRead(t)[p] = stock[p] + n
      <3>1. CASE ProductRow(p) \in DOMAIN view[t]
        <4>1. ProductAsRead(t, p) = [stock |-> stock[p] + n, inventory |-> "in_stock"]
          BY <1>3, <2>2, <3>1 DEF SweeperRows
        <4> QED
          BY <3>1, <4>1 DEF StockAsRead
      <3>2. CASE ProductRow(p) \notin DOMAIN view[t]
        <4>1. Cups(p, S) = {}
          BY <1>3, <2>2, <3>2 DEF SweeperRows
        <4>2. StockAsRead(t)[p] = stock[p]
          BY <3>2 DEF StockAsRead
        <4> QED
          BY <2>1, <4>1, <4>2
      <3> QED
        BY <3>1, <3>2
    <2>4. Cardinality(Cups(p, S \cup {o})) = n + request[o].cups[p]
      BY <1>1, <1>4, <1>5, CupsOfOneMore
    <2> HIDE DEF n
    <2>5. StockAsRead(t)[p] + request[o].cups[p]
            = stock[p] + Cardinality(Cups(p, S \cup {o}))
      BY <1>5, <2>1, <2>3, <2>4
    <2>6. Cardinality(Cups(p, S \cup {o})) # 0
      BY <1>5, <2>1, <2>4
    <2> QED
      BY <2>5, <2>6, FS_EmptySet
  <1> HIDE DEF value
  <1>8. /\ owner' \in [Row -> Tx \cup {Nobody}] /\ owner'[ProductRow(p)] = t
        /\ \A q \in Row : owner[q] = t => owner'[q] = t
        /\ \A q \in Row, u \in Tx \ {t} : owner[q] = u => owner'[q] = u
    BY <1>1, <1>2, <1>6, LockEffect
  <1>9. /\ DOMAIN view' = Tx
        /\ \A u \in Tx : DOMAIN view'[u] \subseteq Row
        /\ \A u \in Tx \ {t} : view'[u] = view[u]
        /\ DOMAIN view'[t] = DOMAIN view[t] \cup {ProductRow(p)}
        /\ view'[t][ProductRow(p)] = value
        /\ \A q \in DOMAIN view[t] : q # ProductRow(p) => view'[t][q] = view[t][q]
    BY <1>1, <1>2, <1>6, ReadsEffect
  <1>10. TxTypeOK' /\ SessionsKept(t)
    BY <1>1, <1>2, <1>8, <1>9 DEF TxTypeOK, Step, SessionsKept
  <1>11. /\ step' = step /\ todo'[t] = todo[t] \ {p} /\ batch' = batch /\ handled' = handled
         /\ request' = request /\ slotOf' = slotOf /\ stock' = stock /\ reserved' = reserved
         /\ StalePending' = StalePending /\ Current(t)' = o
    BY <1>1, <1>2 DEF TxTypeOK, vars, orderVars, shopVars, timeVars, StalePending, Current
  <1>12. SweeperOrders(t)'
    <2>1. \A q \in S : owner'[OrderRow(q)] = t
      BY <1>3, <1>4, <1>8, RowTypes DEF SweeperOrders
    <2>2. ProductsOf(Current(t))' = ProductsOf(o)
      BY <1>11 DEF ProductsOf
    <2> QED
      BY <1>2, <1>3, <1>4, <1>6, <1>8, <1>11, <2>1, <2>2 DEF SweeperOrders
  <1>13. ASSUME NEW q \in Product
         PROVE  /\ ProductRow(q) \in DOMAIN view'[t] <=> Cups(q, Returned(t, q))' # {}
                /\ ProductRow(q) \in DOMAIN view'[t] =>
                     view'[t][ProductRow(q)] =
                       [stock |-> stock[q] + Cardinality(Cups(q, Returned(t, q))'),
                        inventory |-> "in_stock"]
    <2>1. CASE q = p
      <3>1. Returned(t, p)' = S \cup {o}
        BY <1>2, <1>4, <1>11 DEF Returned
      <3>2. Cups(p, Returned(t, p))' = Cups(p, S \cup {o})
        BY <1>11, <3>1 DEF Cups
      <3> QED
        BY <1>7, <1>9, <2>1, <3>2
    <2>2. CASE q # p
      <3>1. Returned(t, q)' = Returned(t, q)
        BY <1>2, <1>11, <2>2 DEF Returned
      <3>2. Cups(q, Returned(t, q))' = Cups(q, Returned(t, q))
        BY <1>11, <3>1 DEF Cups
      <3>3. ProductRow(q) # ProductRow(p)
        BY <2>2, RowsDiffer
      <3> QED
        BY <1>3, <1>9, <3>2, <3>3 DEF SweeperRows, ProductAsRead
    <2> QED
      BY <2>1, <2>2
  <1>14. ASSUME NEW s \in Slot
         PROVE  /\ SlotRow(s) \in DOMAIN view'[t] <=> (Holders(s) \cap handled[t])' # {}
                /\ SlotRow(s) \in DOMAIN view'[t] =>
                     view'[t][SlotRow(s)] =
                       reserved[s] - Cardinality((Holders(s) \cap handled[t])')
    <2>1. (Holders(s) \cap handled[t])' = Holders(s) \cap handled[t]
      BY <1>11 DEF Holders
    <2> QED
      BY <1>3, <1>9, <2>1, RowsDiffer DEF SweeperRows
  <1>15. SweeperRows(t)'
    BY <1>11, <1>13, <1>14 DEF SweeperRows, ProductAsRead
  <1>16. SweeperInv(t)'
    BY <1>1, <1>2, <1>11, <1>12, <1>15 DEF SweeperInv
  <1>17. \A row \in DOMAIN view'[t] : owner'[row] = t
    BY <1>1, <1>8, <1>9 DEF ReadsAreLocked, TxTypeOK
  <1> QED
    BY <1>1, <1>2, <1>10, <1>16, <1>17, KindsDiffer, QuietKeeps

LEMMA ReleaseSeatKeeps ==
  ASSUME TxInv, TypeOK', NEW t \in Sweeper, ReleaseSeat(t)
  PROVE  Kept(t)
  <1> DEFINE o == Current(t)
             S == handled[t]
             seat == slotOf[o]
  <1>1. /\ t \in Tx /\ TxTypeOK /\ TypeOK /\ RowsAgree /\ SlotAccounting
        /\ ReadsAreLocked /\ SweeperInv(t)
    BY KindsDiffer DEF TxInv, TablesInv, SessionsInv
  <1>2. /\ step[t] = "restore" /\ todo[t] = {}
        /\ handled' = [handled EXCEPT ![t] = @ \cup {o}]
        /\ batch' = [batch EXCEPT ![t] = @ \ {o}]
        /\ step' = [step EXCEPT ![t] = "orders"]
        /\ UNCHANGED <<vars, asked, todo, outdated, slotRows>>
    BY DEF ReleaseSeat
  <1>3. SweeperOrders(t) /\ SweeperRows(t)
    BY <1>1, <1>2 DEF SweeperInv
  <1>4. /\ batch[t] # {} /\ o \in StalePending /\ owner[OrderRow(o)] = t
        /\ o \in batch[t] /\ o \notin S /\ o \in Order /\ S \in SUBSET Order
        /\ OrderRow(o) \in Row
    BY <1>1, <1>2, <1>3, CurrentIsLeast, RowTypes DEF SweeperOrders, TxTypeOK
  <1>5. /\ step'[t] = "orders" /\ batch'[t] = batch[t] \ {o} /\ handled'[t] = S \cup {o}
        /\ \A u \in Tx \ {t} : /\ step'[u] = step[u] /\ batch'[u] = batch[u]
                               /\ handled'[u] = handled[u]
        /\ step' \in [Tx -> Step] /\ batch' \in [Tx -> SUBSET Order]
        /\ handled' \in [Tx -> SUBSET Order]
    BY <1>1, <1>2, <1>4 DEF TxTypeOK, Step
  <1>6. /\ request' = request /\ slotOf' = slotOf /\ stock' = stock /\ reserved' = reserved
        /\ StalePending' = StalePending /\ todo' = todo /\ asked' = asked
        /\ outdated' = outdated /\ slotRows' = slotRows
    BY <1>2 DEF vars, orderVars, shopVars, timeVars, StalePending
  <1>7. \A p \in Product : Cups(p, Returned(t, p))' = Cups(p, Returned(t, p))
    <2> SUFFICES ASSUME NEW p \in Product
                 PROVE  Cups(p, Returned(t, p))' = Cups(p, Returned(t, p))
      OBVIOUS
    <2>1. Returned(t, p) = S \cup {o} /\ Returned(t, p)' = S \cup {o}
      BY <1>2, <1>4, <1>5 DEF Returned
    <2> QED
      BY <1>6, <2>1 DEF Cups
  (* The rows, locks and reads after the step. *)
  <1> DEFINE Locked ==
        /\ owner' \in [Row -> Tx \cup {Nobody}]
        /\ \A q \in Row : owner[q] = t => owner'[q] = t
        /\ \A q \in Row, u \in Tx \ {t} : owner[q] = u => owner'[q] = u
        /\ DOMAIN view' = Tx
        /\ \A u \in Tx : DOMAIN view'[u] \subseteq Row
        /\ \A u \in Tx \ {t} : view'[u] = view[u]
        /\ \A row \in DOMAIN view'[t] : owner'[row] = t
        /\ \A p \in Product :
             /\ ProductRow(p) \in DOMAIN view'[t] <=> ProductRow(p) \in DOMAIN view[t]
             /\ ProductRow(p) \in DOMAIN view[t] =>
                  view'[t][ProductRow(p)] = view[t][ProductRow(p)]
        /\ \A s \in Slot :
             /\ SlotRow(s) \in DOMAIN view'[t] <=> Holders(s) \cap (S \cup {o}) # {}
             /\ SlotRow(s) \in DOMAIN view'[t] =>
                  view'[t][SlotRow(s)] =
                    reserved[s] - Cardinality(Holders(s) \cap (S \cup {o}))
  <1>8. \A s \in Slot : s # seat => Holders(s) \cap (S \cup {o}) = Holders(s) \cap S
    BY DEF Holders
  <1>9. ASSUME seat = NoSlot PROVE Locked
    <2>1. owner' = owner /\ view' = view
      BY <1>9 DEF ReleaseSeat
    <2>2. \A s \in Slot : s # seat
      BY <1>9, ValuesAssumption
    <2>3. \A s \in Slot :
            /\ SlotRow(s) \in DOMAIN view[t] <=> Holders(s) \cap (S \cup {o}) # {}
            /\ SlotRow(s) \in DOMAIN view[t] =>
                 view[t][SlotRow(s)] =
                   reserved[s] - Cardinality(Holders(s) \cap (S \cup {o}))
      BY <1>3, <1>8, <2>2 DEF SweeperRows
    <2> QED
      BY <1>1, <2>1, <2>3 DEF TxTypeOK, ReadsAreLocked
  <1>10. ASSUME seat # NoSlot PROVE Locked
    <2> DEFINE n == Cardinality(Holders(seat) \cap S)
               value == IF ReservedAsRead(t)[seat] > 0 THEN ReservedAsRead(t)[seat] - 1 ELSE 0
    <2>1. Lock(t, SlotRow(seat)) /\ Reads(t, SlotRow(seat), value)
      BY <1>10 DEF ReleaseSeat
    <2>2. seat \in Slot /\ SlotRow(seat) \in Row /\ o \in Holders(seat)
      BY <1>1, <1>4, <1>10, RowTypes DEF TypeOK, Holders
    <2>3. /\ reserved[seat] \in Nat /\ n \in Nat
          /\ Cardinality(Holders(seat) \cap (S \cup {o})) = n + 1
          /\ n + 1 <= reserved[seat]
      <3>1. /\ IsFiniteSet(Holders(seat)) /\ IsFiniteSet(Holders(seat) \cap S) /\ n \in Nat
            /\ IsFiniteSet(Holders(seat) \cap (S \cup {o}))
        BY HoldersFinite
      <3>2. /\ Holders(seat) \cap (S \cup {o}) = (Holders(seat) \cap S) \cup {o}
            /\ o \notin Holders(seat) \cap S
        BY <1>4, <2>2
      <3>3. Cardinality(Holders(seat) \cap (S \cup {o})) = n + 1
        BY <3>1, <3>2, FS_AddElement
      <3>4. Cardinality(Holders(seat) \cap (S \cup {o})) <= Cardinality(Holders(seat))
        BY <3>1, FS_Intersection
      <3>5. reserved[seat] = Cardinality(Holders(seat))
        BY <1>1, <2>2 DEF SlotAccounting
      <3>6. reserved[seat] \in Nat
        BY <1>1, <2>2 DEF TypeOK
      <3> HIDE DEF n
      <3> QED
        BY <3>1, <3>3, <3>4, <3>5, <3>6
    <2>4. ReservedAsRead(t)[seat] = reserved[seat] - n
      <3>1. CASE SlotRow(seat) \in DOMAIN view[t]
        BY <1>3, <2>2, <3>1 DEF SweeperRows, ReservedAsRead
      <3>2. CASE SlotRow(seat) \notin DOMAIN view[t]
        <4>1. n = 0
          BY <1>3, <2>2, <3>2, FS_EmptySet DEF SweeperRows
        <4>2. ReservedAsRead(t)[seat] = reserved[seat]
          BY <2>2, <3>2 DEF ReservedAsRead
        <4> QED
          BY <2>3, <4>1, <4>2
      <3> QED
        BY <3>1, <3>2
    <2>5. value = reserved[seat] - Cardinality(Holders(seat) \cap (S \cup {o}))
      <3> HIDE DEF n
      <3> QED
        BY <2>3, <2>4
    <2> HIDE DEF n, value
    <2>6. /\ owner' \in [Row -> Tx \cup {Nobody}] /\ owner'[SlotRow(seat)] = t
          /\ \A q \in Row : owner[q] = t => owner'[q] = t
          /\ \A q \in Row, u \in Tx \ {t} : owner[q] = u => owner'[q] = u
      BY <1>1, <2>1, <2>2, LockEffect
    <2>7. /\ DOMAIN view' = Tx
          /\ \A u \in Tx : DOMAIN view'[u] \subseteq Row
          /\ \A u \in Tx \ {t} : view'[u] = view[u]
          /\ DOMAIN view'[t] = DOMAIN view[t] \cup {SlotRow(seat)}
          /\ view'[t][SlotRow(seat)] = value
          /\ \A q \in DOMAIN view[t] : q # SlotRow(seat) => view'[t][q] = view[t][q]
      BY <1>1, <2>1, <2>2, ReadsEffect
    <2>8. \A row \in DOMAIN view'[t] : owner'[row] = t
      BY <1>1, <2>6, <2>7 DEF ReadsAreLocked, TxTypeOK
    <2>9. \A p \in Product :
            /\ ProductRow(p) \in DOMAIN view'[t] <=> ProductRow(p) \in DOMAIN view[t]
            /\ ProductRow(p) \in DOMAIN view[t] =>
                 view'[t][ProductRow(p)] = view[t][ProductRow(p)]
      BY <2>7, RowsDiffer
    <2>10. ASSUME NEW s \in Slot
           PROVE  /\ SlotRow(s) \in DOMAIN view'[t] <=> Holders(s) \cap (S \cup {o}) # {}
                  /\ SlotRow(s) \in DOMAIN view'[t] =>
                       view'[t][SlotRow(s)] =
                         reserved[s] - Cardinality(Holders(s) \cap (S \cup {o}))
      <3>1. CASE s = seat
        BY <2>2, <2>5, <2>7, <3>1
      <3>2. CASE s # seat
        <4>1. SlotRow(s) # SlotRow(seat)
          BY <3>2, RowsDiffer
        <4> QED
          BY <1>3, <1>8, <2>7, <3>2, <4>1 DEF SweeperRows
      <3> QED
        BY <3>1, <3>2
    <2> QED
      BY <2>6, <2>7, <2>8, <2>9, <2>10
  <1>11. Locked
    BY <1>9, <1>10
  <1> HIDE DEF Locked
  <1>12. TxTypeOK' /\ SessionsKept(t)
    BY <1>1, <1>5, <1>6, <1>11 DEF TxTypeOK, SessionsKept, Locked
  <1>13. SweeperRows(t)'
    <2>1. \A p \in Product : ProductRow(p) \in DOMAIN view[t] =>
            ProductAsRead(t, p)' = ProductAsRead(t, p)
      BY <1>11 DEF Locked, ProductAsRead
    <2>2. \A s \in Slot : (Holders(s) \cap handled[t])' = Holders(s) \cap (S \cup {o})
      BY <1>5, <1>6 DEF Holders
    <2> QED
      BY <1>3, <1>6, <1>7, <1>11, <2>1, <2>2 DEF SweeperRows, Locked
  <1>14. SweeperOrders(t)'
    <2>1. batch'[t] \cup handled'[t] = batch[t] \cup S
      BY <1>4, <1>5
    <2>2. \A q \in S \cup {o} : owner'[OrderRow(q)] = t
      BY <1>3, <1>4, <1>11, RowTypes DEF SweeperOrders, Locked
    <2> QED
      BY <1>3, <1>4, <1>5, <1>6, <2>1, <2>2 DEF SweeperOrders
  <1>15. SweeperInv(t)'
    BY <1>5, <1>13, <1>14 DEF SweeperInv
  <1> QED
    BY <1>1, <1>2, <1>11, <1>12, <1>15, KindsDiffer, QuietKeeps DEF Locked

LEMMA CommitSweepKeeps ==
  ASSUME TxInv, TypeOK', NEW t \in Sweeper, CommitSweep(t)
  PROVE  Kept(t)
  <1>1. TxTypeOK /\ TypeOK /\ t \in Tx
    BY KindsDiffer DEF TxInv, TablesInv
  <1>2. EndTransaction(t) /\ MoveVersions(t, handled[t]) /\ slotRows' = slotRows
    BY DEF CommitSweep
  <1>3. outdated' \in [Batcher -> SUBSET Order]
    BY <1>1, <1>2, VersionsEffect
  <1>4. ASSUME NEW s \in Slot, reserved[s] = 0 PROVE reserved'[s] = 0
    <2>1. CASE UNCHANGED vars
      BY <1>4, <2>1 DEF vars, shopVars
    <2>2. CASE CancelStale
      <3>1. PICK S \in Batches(StalePending) : CancelBatch(S)
        BY <2>2 DEF CancelStale
      <3>2. reserved'[s] = LET n == Cardinality(Holders(s) \cap S)
                           IN  IF reserved[s] < n THEN 0 ELSE reserved[s] - n
        BY <3>1 DEF CancelBatch, ReleaseSlots
      <3>3. Cardinality(Holders(s) \cap S) \in Nat
        BY HoldersFinite
      <3> QED
        BY <1>4, <3>2, <3>3
    <2> QED
      BY <2>1, <2>2, CommitSweepImplements
  <1>5. SlotsBeforeRows' /\ slotRows' \subseteq Slot
    BY <1>1, <1>2, <1>4 DEF SlotsBeforeRows, TxInv, SessionsInv, TxTypeOK
  <1> QED
    BY <1>1, <1>2, <1>3, <1>5, FrameSweep, EndKeeps

LEMMA LockNotifiedKeeps ==
  ASSUME TxInv, TypeOK', NEW t \in Callback, NEW o \in Order, LockNotified(t, o)
  PROVE  Kept(t)
  <1>1. t \in Tx /\ TxTypeOK /\ ReadsAreLocked /\ CallbackInv(t)
    BY KindsDiffer DEF TxInv, SessionsInv
  <1>2. /\ trade[o] = "paid" /\ Lock(t, OrderRow(o))
        /\ step' = [step EXCEPT ![t] = "commit"]
        /\ batch' = [batch EXCEPT ![t] = {o}]
        /\ UNCHANGED <<vars, asked, todo, handled, view, outdated, slotRows>>
    BY DEF LockNotified
  <1>3. /\ owner' \in [Row -> Tx \cup {Nobody}] /\ owner'[OrderRow(o)] = t
        /\ \A q \in Row : owner[q] = t => owner'[q] = t
        /\ \A q \in Row, u \in Tx \ {t} : owner[q] = u => owner'[q] = u
    BY <1>1, <1>2, LockEffect, RowTypes
  <1>4. TxTypeOK' /\ SessionsKept(t)
    BY <1>1, <1>2, <1>3 DEF TxTypeOK, Step, SessionsKept
  <1>5. /\ step'[t] = "commit" /\ batch'[t] = {o} /\ view' = view /\ trade' = trade
        /\ DOMAIN view[t] = {}
    BY <1>1, <1>2 DEF TxTypeOK, CallbackInv, vars, payVars
  <1>6. CallbackInv(t)'
    BY <1>2, <1>3, <1>5 DEF CallbackInv
  <1> QED
    BY <1>1, <1>2, <1>4, <1>5, <1>6, KindsDiffer, QuietKeeps

LEMMA CommitNotifyKeeps ==
  ASSUME TxInv, TypeOK', NEW t \in Callback, CommitNotify(t)
  PROVE  Kept(t)
  <1>1. TxTypeOK /\ t \in Tx
    BY KindsDiffer DEF TxInv
  <1>2. PICK o \in batch[t] :
           /\ Notify(o)
           /\ MoveVersions(t, {q \in {o} : status[q] # "paid" \/ payment[q] # "paid"})
    BY DEF CommitNotify
  <1>3. EndTransaction(t) /\ slotRows' = slotRows /\ reserved' = reserved
    BY <1>2 DEF CommitNotify, Notify, shopVars
  <1>4. outdated' \in [Batcher -> SUBSET Order]
    BY <1>1, <1>2, VersionsEffect
  <1>5. SlotsBeforeRows' /\ slotRows' \subseteq Slot
    BY <1>1, <1>3 DEF SlotsBeforeRows, TxInv, SessionsInv, TxTypeOK
  <1> QED
    BY <1>1, <1>3, <1>4, <1>5, FrameNotify, EndKeeps

LEMMA LoadScheduledKeeps ==
  ASSUME TxInv, TypeOK', NEW t \in Batcher, LoadScheduled(t)
  PROVE  Kept(t)
  <1>1. t \in Tx /\ TxTypeOK /\ ReadsAreLocked /\ BatcherInv(t)
    BY KindsDiffer DEF TxInv, SessionsInv
  <1>2. /\ step[t] = "idle"
        /\ \/ /\ step' = [step EXCEPT ![t] = "flush_remind"]
              /\ batch' = [batch EXCEPT ![t] = DueReminders]
           \/ /\ step' = [step EXCEPT ![t] = "flush_activate"]
              /\ batch' = [batch EXCEPT ![t] = DueOrders]
        /\ UNCHANGED <<vars, owner, asked, todo, handled, view, outdated, slotRows>>
    BY DEF LoadScheduled
  <1>3. DueReminders \subseteq Order /\ DueOrders \subseteq Order
    BY DEF DueReminders, DueOrders
  <1>4. TxTypeOK' /\ SessionsKept(t)
    BY <1>1, <1>2, <1>3 DEF TxTypeOK, Step, SessionsKept
  <1>5. /\ handled'[t] = {} /\ DOMAIN view'[t] = {}
        /\ \/ step'[t] = "flush_remind" /\ batch'[t] = DueReminders
           \/ step'[t] = "flush_activate" /\ batch'[t] = DueOrders
    BY <1>1, <1>2 DEF BatcherInv, TxTypeOK
  <1>6. ASSUME NEW o \in batch'[t] PROVE DueAsRead(t, o)'
    BY <1>2, <1>5, <1>6 DEF DueAsRead, DueReminders, DueOrders, vars, orderVars, timeVars
  <1>7. BatcherInv(t)'
    BY <1>5, <1>6 DEF BatcherInv
  <1> QED
    BY <1>1, <1>2, <1>4, <1>5, <1>7, KindsDiffer, QuietKeeps

LEMMA FlushOrderKeeps ==
  ASSUME TxInv, TypeOK', NEW t \in Batcher, FlushOrder(t)
  PROVE  Kept(t)
  <1> DEFINE o == Current(t)
  <1>1. t \in Tx /\ TxTypeOK /\ ReadsAreLocked /\ BatcherInv(t)
    BY KindsDiffer DEF TxInv, SessionsInv
  <1>2. /\ step[t] \in {"flush_remind", "flush_activate"} /\ batch[t] # {}
        /\ o \notin outdated[t] /\ Lock(t, OrderRow(o))
        /\ batch' = [batch EXCEPT ![t] = @ \ {o}]
        /\ handled' = [handled EXCEPT ![t] = @ \cup {o}]
        /\ UNCHANGED <<vars, step, asked, todo, view, outdated, slotRows>>
    BY DEF FlushOrder
  <1>3. o \in batch[t] /\ o \in Order
    BY <1>1, <1>2, CurrentIsLeast DEF TxTypeOK
  <1>4. /\ owner' \in [Row -> Tx \cup {Nobody}] /\ owner'[OrderRow(o)] = t
        /\ \A q \in Row : owner[q] = t => owner'[q] = t
        /\ \A q \in Row, u \in Tx \ {t} : owner[q] = u => owner'[q] = u
    BY <1>1, <1>2, <1>3, LockEffect, RowTypes
  <1>5. TxTypeOK' /\ SessionsKept(t)
    BY <1>1, <1>2, <1>3, <1>4 DEF TxTypeOK, SessionsKept
  <1>6. /\ batch'[t] = batch[t] \ {o} /\ handled'[t] = handled[t] \cup {o}
        /\ step' = step /\ view' = view /\ outdated' = outdated /\ DOMAIN view[t] = {}
    BY <1>1, <1>2 DEF TxTypeOK, BatcherInv
  <1>7. \A q \in Order : DueAsRead(t, q) => DueAsRead(t, q)'
    BY <1>2 DEF DueAsRead, vars, orderVars, timeVars
  <1>8. ASSUME NEW q \in handled'[t] PROVE owner'[OrderRow(q)] = t /\ DueAsRead(t, q)'
    <2>1. q \in Order /\ DueAsRead(t, q)
      BY <1>1, <1>2, <1>3, <1>6 DEF BatcherInv, TxTypeOK
    <2>2. owner'[OrderRow(q)] = t
      BY <1>1, <1>4, <1>6, <2>1, RowTypes DEF BatcherInv
    <2> QED
      BY <1>7, <2>1, <2>2
  <1>9. ASSUME NEW q \in batch'[t] \ outdated'[t] PROVE DueAsRead(t, q)'
    BY <1>1, <1>6, <1>7 DEF BatcherInv, TxTypeOK
  <1>10. BatcherInv(t)'
    BY <1>1, <1>2, <1>6, <1>8, <1>9 DEF BatcherInv
  <1> QED
    BY <1>1, <1>2, <1>5, <1>6, <1>10, KindsDiffer, QuietKeeps

LEMMA CommitBatchKeeps ==
  ASSUME TxInv, TypeOK', NEW t \in Batcher, CommitBatch(t)
  PROVE  Kept(t)
  <1>1. TxTypeOK /\ t \in Tx
    BY KindsDiffer DEF TxInv
  <1>2. /\ EndTransaction(t) /\ MoveVersions(t, handled[t])
        /\ slotRows' = slotRows /\ reserved' = reserved
    BY DEF CommitBatch, shopVars
  <1>3. outdated' \in [Batcher -> SUBSET Order]
    BY <1>1, <1>2, VersionsEffect
  <1>4. SlotsBeforeRows' /\ slotRows' \subseteq Slot
    BY <1>1, <1>2 DEF SlotsBeforeRows, TxInv, SessionsInv, TxTypeOK
  <1> QED
    BY <1>1, <1>2, <1>3, <1>4, FrameBatch, EndKeeps

-----------------------------------------------------------------------------
(* The invariant                                                           *)

LEMMA NobodyKeeps ==
  ASSUME TxInv, TablesInv', Frame(Nobody), UNCHANGED <<sessionVars, reserved>>
  PROVE  TxInv'
  <1>1. TxTypeOK /\ TypeOK /\ TypeOK' /\ Nobody \notin Tx
    BY SessionsAssumption DEF TxInv, TablesInv
  <1>2. TxTypeOK'
    BY <1>1 DEF TxTypeOK, sessionVars
  <1>3. ReadsAreLocked'
    BY <1>1, OthersKeepReads DEF ReadsAreLocked
  <1>4. \A u \in Client : ClientInv(u)'
    BY <1>1, OtherClientKept, KindsDiffer
  <1>5. \A u \in Sweeper : SweeperInv(u)'
    BY <1>1, OtherSweeperKept, KindsDiffer
  <1>6. \A u \in Callback : CallbackInv(u)'
    BY <1>1, OtherCallbackKept, KindsDiffer
  <1>7. \A u \in Batcher : BatcherInv(u)'
    BY <1>1, OtherBatcherKept, KindsDiffer
  <1>8. SlotsBeforeRows'
    BY DEF SlotsBeforeRows, TxInv, SessionsInv, sessionVars
  <1> QED
    BY <1>2, <1>3, <1>4, <1>5, <1>6, <1>7, <1>8 DEF TxInv, SessionsInv

LEMMA OutsideKeeps ==
  ASSUME TxInv, TablesInv', Outside
  PROVE  TxInv'
  <1>1. UNCHANGED <<sessionVars, reserved>>
    BY DEF Outside, InitiatePayment, CustomerPays, OrderExpires, SlotTime,
           SetInventoryStatus, shopVars
  <1> QED
    BY <1>1, FrameOutside, NobodyKeeps

LEMMA StutterKeeps ==
  ASSUME TxInv, TablesInv', UNCHANGED txVars
  PROVE  TxInv'
  <1>1. SessionsKept(Nobody)
    BY DEF SessionsKept, txVars, sessionVars
  <1>2. \A b \in Batcher : outdated[b] \subseteq outdated'[b]
    BY DEF txVars, sessionVars
  <1>3. UNCHANGED vars
    BY DEF txVars
  <1>4. Frame(Nobody)
    BY <1>1, <1>2, <1>3, QuietTables
  <1> QED
    BY <1>4, NobodyKeeps DEF txVars, vars, shopVars

LEMMA TxInvInit == TxInit => TxInv
  <1> SUFFICES ASSUME TxInit PROVE TxInv
    OBVIOUS
  <1>1. Init
    BY DEF TxInit
  <1>2. TablesInv
    BY <1>1, TypeInit, RowsInit, SlotInit DEF TablesInv
  <1>3. TxTypeOK
    BY <1>2 DEF TxInit, TablesInv, TxTypeOK, Tx, Step, NothingAsked, NothingRead
  <1>4. \A t \in Tx : /\ step[t] = "idle" /\ batch[t] = {} /\ handled[t] = {}
                      /\ DOMAIN view[t] = {}
    BY DEF TxInit, NothingRead
  <1>5. \A t \in Client : ClientInv(t)
    BY <1>4, KindsDiffer DEF ClientInv, Inside
  <1>6. \A t \in Sweeper : SweeperInv(t)
    BY <1>4, KindsDiffer DEF SweeperInv
  <1>7. \A t \in Callback : CallbackInv(t)
    BY <1>4, KindsDiffer DEF CallbackInv
  <1>8. \A t \in Batcher : BatcherInv(t)
    BY <1>4, KindsDiffer DEF BatcherInv
  <1>9. ReadsAreLocked /\ SlotsBeforeRows
    BY <1>1, <1>4 DEF ReadsAreLocked, SlotsBeforeRows, Init
  <1> QED
    BY <1>2, <1>3, <1>5, <1>6, <1>7, <1>8, <1>9 DEF TxInv, SessionsInv

LEMMA TxInvNext == TxInv /\ [TxNext]_txVars => TxInv'
  <1> SUFFICES ASSUME TxInv, [TxNext]_txVars PROVE TxInv'
    OBVIOUS
  <1>1. TypeOK /\ RowsAgree /\ SlotAccounting
    BY DEF TxInv, TablesInv
  <1>2. TablesInv' /\ TypeOK'
    BY <1>1, StepImplements, TypeNext, RowsNext, SlotNext DEF TablesInv
  <1>3. ASSUME Begin PROVE TxInv'
    <2>1. \E t \in Tx : Kept(t)
      BY <1>2, <1>3, KindsDiffer, BeginCreateKeeps, SelectStaleKeeps, LockNotifiedKeeps,
         LoadScheduledKeeps DEF Begin
    <2> QED
      BY <1>2, <2>1, KeptSuffices
  <1>4. ASSUME NEW t \in Client, ClientStep(t) PROVE Kept(t)
    BY <1>2, <1>4, LockKeyKeeps, AnswerFromKeyKeeps, TakeSeatKeeps, MissSlotRowKeeps,
       LockProductKeeps, LockCouponKeeps, CommitCreateKeeps DEF ClientStep
  <1>5. ASSUME NEW t \in Sweeper, SweeperStep(t) PROVE Kept(t)
    BY <1>2, <1>5, LockStaleKeeps, RestoreProductKeeps, ReleaseSeatKeeps, CommitSweepKeeps
       DEF SweeperStep
  <1>6. ASSUME NEW t \in Callback, CommitNotify(t) PROVE Kept(t)
    BY <1>2, <1>6, CommitNotifyKeeps
  <1>7. ASSUME NEW t \in Batcher, BatcherStep(t) PROVE Kept(t)
    BY <1>2, <1>7, FlushOrderKeeps, CommitBatchKeeps DEF BatcherStep
  <1>8. ASSUME NEW t \in Tx, Continue(t) \/ Rollback(t) PROVE TxInv'
    <2>1. Kept(t)
      BY <1>2, <1>4, <1>5, <1>6, <1>7, <1>8, RollbackKeeps DEF Continue
    <2> QED
      BY <1>2, <2>1, KeptSuffices
  <1>9. ASSUME Outside PROVE TxInv'
    BY <1>2, <1>9, OutsideKeeps
  <1>10. ASSUME UNCHANGED txVars PROVE TxInv'
    BY <1>2, <1>10, StutterKeeps
  <1> QED
    BY <1>3, <1>8, <1>9, <1>10 DEF TxNext

-----------------------------------------------------------------------------
(* Theorems                                                                *)

LEMMA TxInvAlways == TxSpec => []TxInv
  BY TxInvInit, TxInvNext, PTL DEF TxSpec

(* Between its statements every session stays where its code puts it, and  *)
(* only rows that are there are locked or read, whatever the sessions of   *)
(* create_order, of the callback and of the tasks do in between.           *)
THEOREM TxTypeCorrect == TxSpec => []TxTypeOK
  <1>1. TxInv => TxTypeOK
    BY DEF TxInv
  <1> QED
    BY <1>1, TxInvAlways, PTL

(* create_order computes the stock and the seats it writes from what it    *)
(* read several statements earlier.  The row locks it took (FOR UPDATE,    *)
(* and the insertion of a slot under its unique start) keep those reads    *)
(* the latest committed values until it commits, so no update is lost.     *)
THEOREM ReadsAreCurrentAlways == TxSpec => []ReadsAreCurrent
  <1>1. TxInv => ReadsAreCurrent
    <2> SUFFICES ASSUME TxInv, NEW t \in Client
                 PROVE  /\ \A p \in Product : ProductRow(p) \in DOMAIN view[t] =>
                             ProductAsRead(t, p) =
                               [stock |-> stock[p], inventory |-> inventory[p]]
                        /\ \A s \in Slot : SlotRow(s) \in DOMAIN view[t] =>
                             view[t][SlotRow(s)] = reserved[s] + 1
                        /\ \A c \in Coupon : CouponRow(c) \in DOMAIN view[t] =>
                             couponUse[c] = NoOrder
      BY DEF ReadsAreCurrent
    <2>1. ClientInv(t)
      BY DEF TxInv, SessionsInv
    <2>2. CASE DOMAIN view[t] = {}
      BY <2>2
    <2>3. CASE step[t] \in {"products", "commit"}
      BY <2>1, <2>3 DEF ClientInv, ClientSeat, ClientProducts, ClientCoupon
    <2> QED
      BY <2>1, <2>2, <2>3 DEF ClientInv, ClientHolds, Inside
  <1> QED
    BY <1>1, TxInvAlways, PTL

(* The transactions of OrderLifecycle are what the statements amount to:   *)
(* with any number of sessions in any interleaving, with rollbacks,        *)
(* deadlock victims and dead processes, every commit is one step of        *)
(* OrderLifecycle and nothing else changes a committed row.                *)
THEOREM StatementsImplementTransactions == TxSpec => ImplementsLifecycle
  <1>1. TxInit => Init
    BY DEF TxInit
  <1>2. TxInv /\ [TxNext]_txVars => [Next]_vars
    BY StepImplements
  <1> QED
    BY <1>1, <1>2, TxInvAlways, PTL DEF TxSpec, ImplementsLifecycle, Spec

(* So the accounts of the shop hold under the interleaved statements too:  *)
(* no cup is lost, no slot is overbooked, a coupon is spent once, a key    *)
(* buys one order, and a paid order has its payment.                       *)
THEOREM AccountsUnderInterleaving ==
  TxSpec => [](StockConserved /\ SlotAccounting /\ CouponSpentOnce
               /\ OneOrderPerKey /\ PaymentsBacked)
  BY StatementsImplementTransactions, StockConservedAlways, SlotAccountingAlways,
     CouponSpentOnceAlways, OneOrderPerKeyAlways, PaymentsBackedAlways, PTL
     DEF ImplementsLifecycle
=============================================================================
