------------------------ MODULE OrderLifecycleProofs ------------------------
(***************************************************************************)
(* Proofs about OrderLifecycle for every number of orders, every set of    *)
(* products, slots, coupons and keys, and every set of requests.           *)
(***************************************************************************)
EXTENDS OrderLifecycle, FiniteSetTheorems, TLAPS

-----------------------------------------------------------------------------
(* Type correctness                                                        *)

LEMMA RequestFields ==
  ASSUME NEW r \in Requests
  PROVE  /\ r \in Request
         /\ r.cups \in [Product -> 0..MaxQty]
         /\ r.slot \in Slot \cup {NoSlot}
         /\ r # NoRequest
         /\ UsesCoupon(r) => r.coupon \in Coupon
  BY RequestsAssumption DEF Request, UsesCoupon

LEMMA CardinalityInBatch ==
  ASSUME NEW S \in SUBSET Order, NEW p \in Product
  PROVE  /\ IsFiniteSet(S) /\ Cardinality(S) \in Nat
         /\ IsFiniteSet(Cups(p, S)) /\ Cardinality(Cups(p, S)) \in Nat
  <1>1. IsFiniteSet(Order)
    BY BoundsAssumption, FS_Interval DEF Order
  <1>2. IsFiniteSet(S)
    BY <1>1, FS_Subset
  <1>3. IsFiniteSet(1..MaxQty)
    BY BoundsAssumption, FS_Interval
  <1>4. IsFiniteSet(S \X (1..MaxQty))
    BY <1>2, <1>3, FS_Product
  <1>5. Cups(p, S) \in SUBSET (S \X (1..MaxQty))
    BY DEF Cups
  <1>6. IsFiniteSet(Cups(p, S))
    BY <1>4, <1>5, FS_Subset
  <1> QED
    BY <1>2, <1>6, FS_CardinalityType

LEMMA HoldersFinite ==
  ASSUME NEW s, NEW S
  PROVE  /\ IsFiniteSet(Holders(s)) /\ Cardinality(Holders(s)) \in Nat
         /\ IsFiniteSet(Holders(s) \cap S) /\ Cardinality(Holders(s) \cap S) \in Nat
  <1>1. IsFiniteSet(Order)
    BY BoundsAssumption, FS_Interval DEF Order
  <1>2. Holders(s) \in SUBSET Order
    BY DEF Holders
  <1>3. IsFiniteSet(Holders(s))
    BY <1>1, <1>2, FS_Subset
  <1>4. IsFiniteSet(Holders(s) \cap S)
    BY <1>3, FS_Intersection
  <1> QED
    BY <1>3, <1>4, FS_CardinalityType

LEMMA TypeInit == Init => TypeOK
  <1> SUFFICES ASSUME Init PROVE TypeOK
    OBVIOUS
  <1>1. 0 \in 0..MaxOrders
    BY BoundsAssumption
  <1> QED
    BY <1>1, ValuesAssumption DEF Init, TypeOK, Status, NoOrder

LEMMA TypeNext == TypeOK /\ [Next]_vars => TypeOK'
  <1> SUFFICES ASSUME TypeOK, [Next]_vars PROVE TypeOK'
    OBVIOUS
  <1> USE DEF TypeOK, orderVars, shopVars, keyVars, payVars, timeVars
  <1>1. ASSUME NEW k \in Key, NEW r \in Requests, CreateOrder(k, r)
        PROVE  TypeOK'
    <2>1. PICK o \in Order : /\ InsertOrder(o, r) /\ DeductStock(r)
                             /\ ReserveSlot(r.slot) /\ SpendCoupon(o, r)
                             /\ snapshot' = [snapshot EXCEPT ![k] = o]
                             /\ AnswerOrLose(k, o)
      BY <1>1 DEF CreateOrder, CreateOrderUnder
    <2>2. r \in Request /\ r.cups \in [Product -> 0..MaxQty]
          /\ r.slot \in Slot \cup {NoSlot} /\ (UsesCoupon(r) => r.coupon \in Coupon)
      BY RequestFields
    <2>3. \A p \in Product : stock[p] - r.cups[p] \in Nat
      <3> SUFFICES ASSUME NEW p \in Product PROVE stock[p] - r.cups[p] \in Nat
        OBVIOUS
      <3>1. r.cups[p] \in Nat
        BY <2>2, BoundsAssumption
      <3>2. r.cups[p] > 0 => stock[p] >= r.cups[p]
        BY <1>1 DEF CreateOrder, CreateOrderUnder, Accepts, Purchasable
      <3> QED
        BY <3>1, <3>2
    <2>4. stock' \in [Product -> Nat]
      BY <2>1, <2>3 DEF DeductStock
    <2>5. inventory' \in [Product -> {"in_stock", "sold_out"}]
      BY <2>1 DEF DeductStock
    <2>6. /\ status' \in [Order -> Status]
          /\ payment' \in [Order -> {"pending", "paid"}]
          /\ request' \in [Order -> Requests \cup {NoRequest}]
          /\ slotOf' \in [Order -> Slot \cup {NoSlot}]
      BY <2>1, <2>2 DEF InsertOrder, Status
    <2>7. couponUse' \in [Coupon -> Order \cup {NoOrder}]
      BY <2>1, <2>2 DEF SpendCoupon
    <2>8. reserved' \in [Slot -> Nat]
      BY <2>1 DEF ReserveSlot
    <2>9. snapshot' \in [Key -> Order \cup {NoOrder}]
      BY <2>1
    <2>10. answers' \in [Key -> SUBSET Order]
      BY <2>1 DEF AnswerOrLose
    <2>11. UNCHANGED <<reminded, cancelLog, payVars, timeVars>>
      BY <1>1 DEF CreateOrder, CreateOrderUnder
    <2> QED
      BY <2>4, <2>5, <2>6, <2>7, <2>8, <2>9, <2>10, <2>11
  <1>2. ASSUME NEW k \in Key, NEW r \in Requests, ReplayOrder(k, r)
        PROVE  TypeOK'
    <2>1. snapshot[k] \in Order
      BY <1>2 DEF ReplayOrder
    <2>2. answers' \in [Key -> SUBSET Order]
      BY <1>2, <2>1 DEF ReplayOrder
    <2> QED
      BY <1>2, <2>2 DEF ReplayOrder
  <1>3. ASSUME NEW o \in Order, InitiatePayment(o) PROVE TypeOK'
    BY <1>3 DEF InitiatePayment
  <1>4. ASSUME NEW o \in Order, CustomerPays(o) PROVE TypeOK'
    BY <1>4 DEF CustomerPays
  <1>5. ASSUME NEW o \in Order, Notify(o) PROVE TypeOK'
    BY <1>5 DEF Notify, Status
  <1>6. ASSUME CancelStale PROVE TypeOK'
    <2>1. PICK S \in SUBSET StalePending : CancelBatch(S)
      BY <1>6 DEF CancelStale, Batches
    <2>2. S \in SUBSET Order
      BY DEF StalePending
    <2>3. \A p \in Product : Cardinality(Cups(p, S)) \in Nat
      BY <2>2, CardinalityInBatch
    <2>4. stock' \in [Product -> Nat]
      BY <2>1, <2>3 DEF CancelBatch, ReturnStock
    <2>5. \A s \in Slot : Cardinality(Holders(s) \cap S) \in Nat
      BY HoldersFinite
    <2>6. reserved' \in [Slot -> Nat]
      <3>1. reserved' = [s \in Slot |->
               IF reserved[s] < Cardinality(Holders(s) \cap S) THEN 0
               ELSE reserved[s] - Cardinality(Holders(s) \cap S)]
        BY <2>1 DEF CancelBatch, ReleaseSlots
      <3>2. \A s \in Slot :
               (IF reserved[s] < Cardinality(Holders(s) \cap S) THEN 0
                ELSE reserved[s] - Cardinality(Holders(s) \cap S)) \in Nat
        <4> TAKE s \in Slot
        <4> DEFINE n == Cardinality(Holders(s) \cap S)
        <4>1. n \in Nat /\ reserved[s] \in Nat
          BY <2>5
        <4> HIDE DEF n
        <4>2. (IF reserved[s] < n THEN 0 ELSE reserved[s] - n) \in Nat
          BY <4>1
        <4> QED
          BY <4>2 DEF n
      <3> QED
        BY <3>1, <3>2
    <2>7. inventory' \in [Product -> {"in_stock", "sold_out"}]
      BY <2>1 DEF CancelBatch, ReopenInventory
    <2>8. /\ status' \in [Order -> Status]
          /\ slotOf' \in [Order -> Slot \cup {NoSlot}]
          /\ cancelLog' \subseteq Order
      BY <2>1, <2>2 DEF CancelBatch, Status
    <2>9. UNCHANGED <<payment, request, reminded, couponUse, keyVars, payVars, timeVars>>
      BY <2>1 DEF CancelBatch
    <2> QED
      BY <2>4, <2>6, <2>7, <2>8, <2>9
  <1>7. ASSUME SendReminders PROVE TypeOK'
    BY <1>7 DEF SendReminders, Remindable
  <1>8. ASSUME ActivateDue PROVE TypeOK'
    BY <1>8 DEF ActivateDue, ActivateBatch, Status
  <1>9. ASSUME NEW p \in Product, NEW s \in {"in_stock", "sold_out"},
               SetInventoryStatus(p, s)
        PROVE  TypeOK'
    BY <1>9 DEF SetInventoryStatus
  <1>10. ASSUME OrderExpires PROVE TypeOK'
    <2>1. cutoff' \in 0..MaxOrders
      BY <1>10, BoundsAssumption DEF OrderExpires, Created, Order
    <2> QED
      BY <1>10, <2>1 DEF OrderExpires
  <1>11. ASSUME NEW s \in Slot, SlotTime(s) PROVE TypeOK'
    BY <1>11 DEF SlotTime
  <1>12. CASE UNCHANGED vars
    BY <1>12 DEF vars
  <1> QED
    BY <1>1, <1>2, <1>3, <1>4, <1>5, <1>6, <1>7, <1>8, <1>9, <1>10, <1>11, <1>12
       DEF Next

(* Every column keeps to its domain; in particular stock_quantity, which   *)
(* create_order lowers, never goes below zero.                             *)
THEOREM TypeCorrect == Spec => []TypeOK
  BY TypeInit, TypeNext, PTL DEF Spec

-----------------------------------------------------------------------------
(* The columns of an order agree                                           *)

LEMMA RowsInit == Init => RowsAgree
  BY RequestsAssumption DEF Init, RowsAgree

LEMMA RowsNext == TypeOK /\ RowsAgree /\ [Next]_vars => RowsAgree'
  <1> SUFFICES ASSUME TypeOK, RowsAgree, [Next]_vars PROVE RowsAgree'
    OBVIOUS
  <1> USE DEF RowsAgree, orderVars, shopVars, keyVars, payVars, timeVars
  <1>1. ASSUME NEW k \in Key, NEW r \in Requests, CreateOrder(k, r)
        PROVE  RowsAgree'
    <2>1. PICK o \in Order : FirstAbsent(o) /\ InsertOrder(o, r)
      BY <1>1 DEF CreateOrder, CreateOrderUnder
    <2>2. UNCHANGED <<cancelLog, trade>>
      BY <1>1 DEF CreateOrder, CreateOrderUnder
    <2>3. r # NoRequest
      BY RequestFields
    <2>4. status[o] = "absent" /\ o \notin cancelLog
      BY <2>1 DEF FirstAbsent
    <2> QED
      BY <2>1, <2>2, <2>3, <2>4 DEF InsertOrder, TypeOK
  <1>2. ASSUME NEW k \in Key, NEW r \in Requests, ReplayOrder(k, r)
        PROVE  RowsAgree'
    BY <1>2 DEF ReplayOrder
  <1>3. ASSUME NEW o \in Order, InitiatePayment(o) PROVE RowsAgree'
    BY <1>3 DEF InitiatePayment, TypeOK
  <1>4. ASSUME NEW o \in Order, CustomerPays(o) PROVE RowsAgree'
    BY <1>4 DEF CustomerPays, TypeOK
  <1>5. ASSUME NEW o \in Order, Notify(o) PROVE RowsAgree'
    BY <1>5 DEF Notify, TypeOK
  <1>6. ASSUME CancelStale PROVE RowsAgree'
    <2>1. PICK S \in SUBSET StalePending : CancelBatch(S)
      BY <1>6 DEF CancelStale, Batches
    <2>2. S \in SUBSET Order
      BY DEF StalePending
    <2>3. \A o \in S : status[o] = "pending_payment" /\ payment[o] = "pending"
      BY DEF StalePending
    <2> QED
      BY <2>1, <2>2, <2>3 DEF CancelBatch, TypeOK
  <1>7. ASSUME SendReminders PROVE RowsAgree'
    BY <1>7 DEF SendReminders
  <1>8. ASSUME ActivateDue PROVE RowsAgree'
    BY <1>8 DEF ActivateDue, ActivateBatch, DueOrders, TypeOK
  <1>9. ASSUME NEW p \in Product, NEW s \in {"in_stock", "sold_out"},
               SetInventoryStatus(p, s)
        PROVE  RowsAgree'
    BY <1>9 DEF SetInventoryStatus
  <1>10. ASSUME OrderExpires PROVE RowsAgree'
    BY <1>10 DEF OrderExpires
  <1>11. ASSUME NEW s \in Slot, SlotTime(s) PROVE RowsAgree'
    BY <1>11 DEF SlotTime
  <1>12. CASE UNCHANGED vars
    BY <1>12 DEF vars
  <1> QED
    BY <1>1, <1>2, <1>3, <1>4, <1>5, <1>6, <1>7, <1>8, <1>9, <1>10, <1>11, <1>12
       DEF Next

(* The columns of an order agree in every state, for any number of orders. *)
THEOREM RowsAgreeAlways == Spec => []RowsAgree
  BY RowsInit, RowsNext, TypeCorrect, PTL DEF Spec

-----------------------------------------------------------------------------
(* Which steps matter to the accounts: a creation, a cancellation batch,   *)
(* and everything else.                                                    *)

Quiet == /\ UNCHANGED <<request, slotOf, cancelLog, stock, couponUse, reserved>>
         /\ snapshot' = snapshot
         /\ Created' = Created

LEMMA StepKinds ==
  ASSUME TypeOK, RowsAgree, [Next]_vars
  PROVE  \/ \E k \in Key, r \in Requests : CreateOrder(k, r)
         \/ CancelStale
         \/ Quiet
  <1> USE DEF Quiet, Created, orderVars, shopVars, keyVars, payVars, timeVars
  <1>1. ASSUME NEW k \in Key, NEW r \in Requests, ReplayOrder(k, r)
        PROVE  Quiet
    BY <1>1 DEF ReplayOrder
  <1>2. ASSUME NEW o \in Order,
               InitiatePayment(o) \/ CustomerPays(o)
        PROVE  Quiet
    BY <1>2 DEF InitiatePayment, CustomerPays
  <1>3. ASSUME NEW o \in Order, Notify(o) PROVE Quiet
    <2>1. status[o] # "absent"
      BY <1>3 DEF Notify, RowsAgree
    <2> QED
      BY <1>3, <2>1 DEF Notify, TypeOK
  <1>4. ASSUME SendReminders PROVE Quiet
    BY <1>4 DEF SendReminders
  <1>5. ASSUME ActivateDue PROVE Quiet
    BY <1>5 DEF ActivateDue, ActivateBatch, DueOrders, TypeOK
  <1>6. ASSUME NEW p \in Product, NEW s \in {"in_stock", "sold_out"},
               SetInventoryStatus(p, s)
        PROVE  Quiet
    BY <1>6 DEF SetInventoryStatus
  <1>7. ASSUME OrderExpires PROVE Quiet
    BY <1>7 DEF OrderExpires
  <1>8. ASSUME NEW s \in Slot, SlotTime(s) PROVE Quiet
    BY <1>8 DEF SlotTime
  <1>9. CASE UNCHANGED vars
    BY <1>9 DEF vars
  <1> QED
    BY <1>1, <1>2, <1>3, <1>4, <1>5, <1>6, <1>7, <1>8, <1>9 DEF Next

-----------------------------------------------------------------------------
(* Stock                                                                   *)

LEMMA CupsOfOneOrder ==
  ASSUME NEW o, NEW n \in Nat
  PROVE  IsFiniteSet({o} \X (1..n)) /\ Cardinality({o} \X (1..n)) = n
  <1>1. IsFiniteSet(1..n) /\ Cardinality(1..n) = n
    BY FS_Interval
  <1>2. IsFiniteSet({o}) /\ Cardinality({o}) = 1
    BY FS_Singleton
  <1> QED
    BY <1>1, <1>2, FS_Product

LEMMA DisjointCardinality ==
  ASSUME NEW A, NEW B, IsFiniteSet(A), IsFiniteSet(B), A \cap B = {}
  PROVE  Cardinality(A \cup B) = Cardinality(A) + Cardinality(B)
  <1>1. Cardinality(A \cap B) = 0
    BY FS_EmptySet
  <1>2. Cardinality(A) \in Nat /\ Cardinality(B) \in Nat
    BY FS_CardinalityType
  <1>3. Cardinality(A \cup B) =
          Cardinality(A) + Cardinality(B) - Cardinality(A \cap B)
    BY FS_Union
  <1> QED
    BY <1>1, <1>2, <1>3

LEMMA StockInit == Init => StockConserved
  <1> SUFFICES ASSUME Init, NEW p \in Product
               PROVE  stock[p] + Cardinality(Cups(p, Created \ cancelLog))
                        = InitialStock[p]
    BY DEF StockConserved
  <1>1. Created = {}
    BY DEF Init, Created
  <1>2. Cups(p, Created \ cancelLog) = {}
    BY <1>1 DEF Cups
  <1>3. Cardinality(Cups(p, Created \ cancelLog)) = 0
    BY <1>2, FS_EmptySet
  <1>4. stock[p] = InitialStock[p] /\ InitialStock[p] \in Nat
    BY ValuesAssumption DEF Init
  <1> QED
    BY <1>3, <1>4

LEMMA StockNext ==
  TypeOK /\ RowsAgree /\ StockConserved /\ [Next]_vars => StockConserved'
  <1> SUFFICES ASSUME TypeOK, RowsAgree, StockConserved, [Next]_vars,
                      NEW p \in Product
               PROVE  (stock[p] + Cardinality(Cups(p, Created \ cancelLog))
                        = InitialStock[p])'
    BY DEF StockConserved
  <1> DEFINE Live == Created \ cancelLog
  <1>1. stock[p] + Cardinality(Cups(p, Live)) = InitialStock[p]
    BY DEF StockConserved
  <1>2. Live \in SUBSET Order
    BY DEF Created
  <1>3. /\ IsFiniteSet(Cups(p, Live)) /\ Cardinality(Cups(p, Live)) \in Nat
        /\ stock[p] \in Nat
    BY <1>2, CardinalityInBatch DEF TypeOK
  <1>4. ASSUME NEW k \in Key, NEW r \in Requests, CreateOrder(k, r)
        PROVE  stock'[p] + Cardinality(Cups(p, Live)') = InitialStock[p]
    <2>1. PICK o \in Order : FirstAbsent(o) /\ InsertOrder(o, r) /\ DeductStock(r)
      BY <1>4 DEF CreateOrder, CreateOrderUnder
    <2>2. cancelLog' = cancelLog
      BY <1>4 DEF CreateOrder, CreateOrderUnder
    <2> DEFINE New == {o} \X (1..r.cups[p])
    <2>3. r.cups[p] \in 0..MaxQty
      BY RequestFields
    <2>4. status[o] = "absent" /\ o \notin cancelLog
      BY <2>1 DEF FirstAbsent, RowsAgree
    <2>5. Live' = Live \cup {o}
      BY <2>1, <2>2, <2>4 DEF Created, InsertOrder, TypeOK
    <2>6. \A q \in Live : request'[q] = request[q]
      BY <2>1, <2>4 DEF Created, InsertOrder, TypeOK
    <2>7. request'[o] = r
      BY <2>1 DEF InsertOrder, TypeOK
    <2>8. o \notin Live
      BY <2>4 DEF Created
    <2> HIDE DEF Live
    <2>9. Cups(p, Live)' = Cups(p, Live) \cup New
      BY <2>3, <2>5, <2>6, <2>7, <2>8, BoundsAssumption DEF Cups
    <2>10. Cups(p, Live) \cap New = {}
      BY <2>8 DEF Cups
    <2>11. IsFiniteSet(New) /\ Cardinality(New) = r.cups[p]
      <3>1. r.cups[p] \in Nat
        BY <2>3, BoundsAssumption
      <3> QED
        BY <3>1, CupsOfOneOrder
    <2> HIDE DEF New
    <2>12. Cardinality(Cups(p, Live)') = Cardinality(Cups(p, Live)) + r.cups[p]
      BY <1>3, <2>9, <2>10, <2>11, DisjointCardinality
    <2>13. stock'[p] = stock[p] - r.cups[p]
      BY <2>1 DEF DeductStock
    <2> QED
      BY <1>1, <1>3, <2>3, <2>12, <2>13, BoundsAssumption
  <1>5. ASSUME CancelStale
        PROVE  stock'[p] + Cardinality(Cups(p, Live)') = InitialStock[p]
    <2>0. PICK S \in SUBSET StalePending : CancelBatch(S)
      BY <1>5 DEF CancelStale, Batches
    <2>1. S \in SUBSET Order /\ CancelBatch(S)
      BY <2>0 DEF StalePending
    <2>2. S \subseteq Live
      BY DEF StalePending, Created, RowsAgree
    <2>3. cancelLog' = cancelLog \cup S /\ request' = request
      BY <2>1 DEF CancelBatch
    <2>4. Created' = Created
      BY <2>1, <2>2 DEF CancelBatch, Created, TypeOK
    <2>5. Live' = Live \ S
      BY <2>3, <2>4
    <2> HIDE DEF Live
    <2>6. Cups(p, Live) = Cups(p, Live)' \cup Cups(p, S)
      BY <2>2, <2>3, <2>5 DEF Cups
    <2>7. Cups(p, Live)' \cap Cups(p, S) = {}
      BY <2>5 DEF Cups
    <2>8. IsFiniteSet(Cups(p, S)) /\ Cardinality(Cups(p, S)) \in Nat
      BY <2>1, CardinalityInBatch
    <2>9. Cups(p, Live)' \in SUBSET Cups(p, Live)
      BY <2>6
    <2>10. IsFiniteSet(Cups(p, Live)') /\ Cardinality(Cups(p, Live)') \in Nat
      BY <1>3, <2>9, FS_Subset, FS_CardinalityType
    <2>11. Cardinality(Cups(p, Live)) =
             Cardinality(Cups(p, Live)') + Cardinality(Cups(p, S))
      BY <2>6, <2>7, <2>8, <2>10, DisjointCardinality
    <2>12. stock'[p] = stock[p] + Cardinality(Cups(p, S))
      BY <2>1 DEF CancelBatch, ReturnStock
    <2> QED
      BY <1>1, <1>3, <2>8, <2>10, <2>11, <2>12
  <1>6. ASSUME Quiet
        PROVE  stock'[p] + Cardinality(Cups(p, Live)') = InitialStock[p]
    BY <1>1, <1>6 DEF Quiet, Cups
  <1> QED
    BY <1>4, <1>5, <1>6, StepKinds

(* No cup is lost or invented, for any stock, batch limit and interleaving. *)
THEOREM StockConservedAlways == Spec => []StockConserved
  BY StockInit, StockNext, TypeCorrect, RowsAgreeAlways, PTL DEF Spec

-----------------------------------------------------------------------------
(* Slots                                                                   *)

LEMMA SlotInit == Init => SlotAccounting
  <1> SUFFICES ASSUME Init, NEW s \in Slot
               PROVE  reserved[s] = Cardinality(Holders(s)) /\ reserved[s] <= SlotCapacity
    BY DEF SlotAccounting
  <1>1. Holders(s) = {}
    BY ValuesAssumption DEF Init, Holders
  <1>2. Cardinality(Holders(s)) = 0
    BY <1>1, FS_EmptySet
  <1> QED
    BY <1>2, BoundsAssumption DEF Init

LEMMA SlotNext ==
  TypeOK /\ RowsAgree /\ SlotAccounting /\ [Next]_vars => SlotAccounting'
  <1> SUFFICES ASSUME TypeOK, RowsAgree, SlotAccounting, [Next]_vars, NEW s \in Slot
               PROVE  /\ reserved'[s] = Cardinality(Holders(s)')
                      /\ reserved'[s] <= SlotCapacity
    BY DEF SlotAccounting
  <1>1. reserved[s] = Cardinality(Holders(s)) /\ reserved[s] <= SlotCapacity
    BY DEF SlotAccounting
  <1>2. IsFiniteSet(Holders(s)) /\ reserved[s] \in Nat /\ s # NoSlot
    BY HoldersFinite, ValuesAssumption DEF TypeOK
  <1>3. ASSUME NEW k \in Key, NEW r \in Requests, CreateOrder(k, r)
        PROVE  /\ reserved'[s] = Cardinality(Holders(s)')
               /\ reserved'[s] <= SlotCapacity
    <2>1. PICK o \in Order : /\ FirstAbsent(o) /\ InsertOrder(o, r)
                             /\ ReserveSlot(r.slot)
      BY <1>3 DEF CreateOrder, CreateOrderUnder
    <2>2. o \notin Holders(s)
      BY <1>2, <2>1 DEF FirstAbsent, RowsAgree, Holders
    <2>3. CASE r.slot = s
      <3>1. reserved[s] < SlotCapacity
        BY <1>2, <1>3, <2>3 DEF CreateOrder, CreateOrderUnder, Accepts, SlotBookable
      <3>2. Holders(s)' = Holders(s) \cup {o}
        BY <2>1, <2>3 DEF InsertOrder, Holders, TypeOK
      <3>3. Cardinality(Holders(s)') = Cardinality(Holders(s)) + 1
        BY <1>2, <2>2, <3>2, FS_AddElement
      <3>4. reserved'[s] = reserved[s] + 1
        BY <2>1, <2>3 DEF ReserveSlot
      <3> QED
        BY <1>1, <1>2, <3>1, <3>3, <3>4, BoundsAssumption
    <2>4. CASE r.slot # s
      <3>1. Holders(s)' = Holders(s)
        BY <2>1, <2>2, <2>4 DEF InsertOrder, Holders, TypeOK
      <3>2. reserved'[s] = reserved[s]
        BY <2>1, <2>4 DEF ReserveSlot
      <3> QED
        BY <1>1, <3>1, <3>2
    <2> QED
      BY <2>3, <2>4
  <1>4. ASSUME CancelStale
        PROVE  /\ reserved'[s] = Cardinality(Holders(s)')
               /\ reserved'[s] <= SlotCapacity
    <2>0. PICK S \in SUBSET StalePending : CancelBatch(S)
      BY <1>4 DEF CancelStale, Batches
    <2>1. S \in SUBSET Order /\ CancelBatch(S)
      BY <2>0 DEF StalePending
    <2> DEFINE n == Cardinality(Holders(s) \cap S)
    <2>2. Holders(s)' = Holders(s) \ S
      BY <1>2, <2>1 DEF CancelBatch, Holders, TypeOK
    <2>3. Cardinality(Holders(s) \ S) = Cardinality(Holders(s)) - n
      BY <1>2, FS_Difference
    <2>4. n \in Nat /\ n <= Cardinality(Holders(s))
      BY <1>2, HoldersFinite, FS_Intersection
    <2>5. reserved'[s] = IF reserved[s] < n THEN 0 ELSE reserved[s] - n
      BY <2>1 DEF CancelBatch, ReleaseSlots
    <2> HIDE DEF n
    <2> QED
      BY <1>1, <1>2, <2>2, <2>3, <2>4, <2>5, BoundsAssumption
  <1>5. ASSUME Quiet
        PROVE  /\ reserved'[s] = Cardinality(Holders(s)')
               /\ reserved'[s] <= SlotCapacity
    BY <1>1, <1>5 DEF Quiet, Holders
  <1> QED
    BY <1>3, <1>4, <1>5, StepKinds

(* reserved_count is exact and within capacity for every capacity, so the  *)
(* floor at zero in release_slot never hides a lost reservation.           *)
THEOREM SlotAccountingAlways == Spec => []SlotAccounting
  BY SlotInit, SlotNext, TypeCorrect, RowsAgreeAlways, PTL DEF Spec

-----------------------------------------------------------------------------
(* Coupons                                                                 *)

LEMMA CouponInit == Init => CouponSpentOnce
  BY DEF Init, CouponSpentOnce, Created

LEMMA CouponNext ==
  TypeOK /\ RowsAgree /\ CouponSpentOnce /\ [Next]_vars => CouponSpentOnce'
  <1> SUFFICES ASSUME TypeOK, RowsAgree, CouponSpentOnce, [Next]_vars
               PROVE  CouponSpentOnce'
    OBVIOUS
  <1>1. ASSUME NEW k \in Key, NEW r \in Requests, CreateOrder(k, r)
        PROVE  CouponSpentOnce'
    <2>1. PICK o \in Order : FirstAbsent(o) /\ InsertOrder(o, r) /\ SpendCoupon(o, r)
      BY <1>1 DEF CreateOrder, CreateOrderUnder
    <2>2. UsesCoupon(r) =>
            r.coupon \in Coupon /\ couponUse[r.coupon] = NoOrder
            /\ Owner[r.coupon] = r.user
      BY <1>1, RequestFields DEF CreateOrder, CreateOrderUnder, Accepts, CouponUsable
    <2>3. status[o] = "absent" /\ o \notin Created /\ Created' = Created \cup {o}
      BY <2>1 DEF FirstAbsent, InsertOrder, Created, TypeOK
    <2>4. request' = [request EXCEPT ![o] = r] /\ request'[o] = r
      BY <2>1 DEF InsertOrder, TypeOK
    <2>5. \A q \in Created : request'[q] = request[q] /\ q # o /\ q \in Order
      BY <2>3, <2>4 DEF TypeOK, Created
    <2>6. NoOrder \notin Order
      BY BoundsAssumption DEF NoOrder, Order
    <2>7. CASE UsesCoupon(r)
      <3>1. couponUse' = [couponUse EXCEPT ![r.coupon] = o]
        BY <2>1, <2>7 DEF SpendCoupon
      <3>2. \A q \in Created' :
               UsesCoupon(request'[q]) => couponUse'[request'[q].coupon] = q
        <4> TAKE q \in Created'
        <4>1. CASE q = o
          BY <2>2, <2>4, <2>7, <3>1, <4>1 DEF TypeOK
        <4>2. CASE q \in Created
          <5>1. request[q] \in Requests
            BY <4>2 DEF RowsAgree, TypeOK, Created
          <5>2. UsesCoupon(request[q]) => request[q].coupon \in Coupon
            BY <5>1, RequestFields
          <5>3. UsesCoupon(request[q]) => couponUse[request[q].coupon] = q
            BY <4>2 DEF CouponSpentOnce
          <5>4. q # NoOrder
            BY <2>5, <2>6, <4>2
          <5> QED
            BY <2>2, <2>5, <2>7, <3>1, <4>2, <5>2, <5>3, <5>4 DEF TypeOK
        <4> QED
          BY <2>3, <4>1, <4>2
      <3>3. ASSUME NEW c \in Coupon, couponUse'[c] # NoOrder
            PROVE  /\ couponUse'[c] \in Created'
                   /\ request'[couponUse'[c]].coupon = c
                   /\ request'[couponUse'[c]].user = Owner[c]
        <4>1. CASE c = r.coupon
          BY <2>2, <2>3, <2>4, <2>7, <3>1, <4>1 DEF TypeOK
        <4>2. CASE c # r.coupon
          <5>1. couponUse'[c] = couponUse[c]
            BY <2>7, <2>2, <3>1, <4>2 DEF TypeOK
          <5> QED
            BY <2>3, <2>5, <3>3, <5>1 DEF CouponSpentOnce
        <4> QED
          BY <4>1, <4>2
      <3> QED
        BY <3>2, <3>3 DEF CouponSpentOnce
    <2>8. CASE ~UsesCoupon(r)
      <3>1. couponUse' = couponUse
        BY <2>1, <2>8 DEF SpendCoupon
      <3> QED
        BY <2>3, <2>4, <2>5, <2>8, <3>1 DEF CouponSpentOnce
    <2> QED
      BY <2>7, <2>8
  <1>2. ASSUME CancelStale PROVE CouponSpentOnce'
    <2>1. PICK S \in SUBSET StalePending : CancelBatch(S)
      BY <1>2 DEF CancelStale, Batches
    <2>2. Created' = Created
      BY <2>1 DEF CancelBatch, Created, StalePending, TypeOK
    <2>3. request' = request /\ couponUse' = couponUse
      BY <2>1 DEF CancelBatch
    <2> QED
      BY <2>2, <2>3 DEF CouponSpentOnce
  <1>3. ASSUME Quiet PROVE CouponSpentOnce'
    BY <1>3 DEF Quiet, CouponSpentOnce
  <1> QED
    BY <1>1, <1>2, <1>3, StepKinds

(* A coupon discounts at most one order, one of its owner's, for ever.     *)
THEOREM CouponSpentOnceAlways == Spec => []CouponSpentOnce
  BY CouponInit, CouponNext, TypeCorrect, RowsAgreeAlways, PTL DEF Spec

-----------------------------------------------------------------------------
(* Idempotency keys                                                        *)

LEMMA KeyInit == Init => OneOrderPerKey
  BY DEF Init, OneOrderPerKey, Created

LEMMA KeyNext ==
  TypeOK /\ RowsAgree /\ OneOrderPerKey /\ [Next]_vars => OneOrderPerKey'
  <1> SUFFICES ASSUME TypeOK, RowsAgree, OneOrderPerKey, [Next]_vars
               PROVE  OneOrderPerKey'
    OBVIOUS
  <1>1. NoOrder \notin Order
    BY BoundsAssumption DEF NoOrder, Order
  <1>2. ASSUME NEW k \in Key, NEW r \in Requests, CreateOrder(k, r)
        PROVE  OneOrderPerKey'
    <2>1. PICK o \in Order : /\ FirstAbsent(o) /\ InsertOrder(o, r)
                             /\ snapshot' = [snapshot EXCEPT ![k] = o]
                             /\ AnswerOrLose(k, o)
      BY <1>2 DEF CreateOrder, CreateOrderUnder
    <2>2. snapshot[k] = NoOrder
      BY <1>2 DEF CreateOrder
    <2>3. o \notin Created /\ Created' = Created \cup {o}
      BY <2>1 DEF FirstAbsent, InsertOrder, Created, TypeOK
    <2>4. snapshot'[k] = o /\ \A l \in Key \ {k} : snapshot'[l] = snapshot[l]
      BY <2>1 DEF TypeOK
    <2>5. \A l \in Key : snapshot[l] # o
      BY <1>1, <2>3 DEF OneOrderPerKey
    <2>6. \A q \in Created' : \E l \in Key : snapshot'[l] = q
      <3> TAKE q \in Created'
      <3>1. CASE q = o
        BY <2>4, <3>1
      <3>2. CASE q \in Created
        <4>1. PICK l \in Key : snapshot[l] = q
          BY <3>2 DEF OneOrderPerKey
        <4>2. q # NoOrder
          BY <1>1, <3>2 DEF Created
        <4> QED
          BY <2>2, <2>4, <4>1, <4>2
      <3> QED
        BY <2>3, <3>1, <3>2
    <2>7. \A l, m \in Key : snapshot'[l] = snapshot'[m] => l = m \/ snapshot'[l] = NoOrder
      BY <2>4, <2>5 DEF OneOrderPerKey
    <2>8. \A l \in Key : snapshot'[l] # NoOrder => snapshot'[l] \in Created'
      BY <2>3, <2>4 DEF OneOrderPerKey
    <2>9. answers[k] = {}
      BY <1>1, <2>2 DEF OneOrderPerKey, TypeOK
    <2>10. \A l \in Key : answers'[l] \subseteq {snapshot'[l]}
      BY <2>1, <2>4, <2>9 DEF AnswerOrLose, OneOrderPerKey, TypeOK
    <2> QED
      BY <2>6, <2>7, <2>8, <2>10 DEF OneOrderPerKey
  <1>3. ASSUME NEW k \in Key, NEW r \in Requests, ReplayOrder(k, r)
        PROVE  OneOrderPerKey'
    <2>1. /\ answers' = [answers EXCEPT ![k] = @ \cup {snapshot[k]}]
          /\ UNCHANGED <<status, snapshot>>
      BY <1>3 DEF ReplayOrder, orderVars
    <2>2. \A l \in Key : answers'[l] \subseteq {snapshot[l]}
      BY <2>1 DEF OneOrderPerKey, TypeOK
    <2> QED
      BY <2>1, <2>2 DEF OneOrderPerKey, Created
  <1>4. ASSUME NEW o \in Order, Notify(o) PROVE OneOrderPerKey'
    <2>1. status[o] # "absent"
      BY <1>4 DEF Notify, RowsAgree
    <2>2. Created' = Created
      BY <1>4, <2>1 DEF Notify, Created, TypeOK
    <2> QED
      BY <1>4, <2>2 DEF Notify, keyVars, OneOrderPerKey
  <1>5. ASSUME CancelStale PROVE OneOrderPerKey'
    <2>1. PICK S \in SUBSET StalePending : CancelBatch(S)
      BY <1>5 DEF CancelStale, Batches
    <2>2. Created' = Created
      BY <2>1 DEF CancelBatch, Created, StalePending, TypeOK
    <2> QED
      BY <2>1, <2>2 DEF CancelBatch, keyVars, OneOrderPerKey
  <1>6. ASSUME ActivateDue PROVE OneOrderPerKey'
    <2>1. Created' = Created
      BY <1>6 DEF ActivateDue, ActivateBatch, Created, DueOrders, TypeOK
    <2> QED
      BY <1>6, <2>1 DEF ActivateDue, ActivateBatch, keyVars, OneOrderPerKey
  <1>7. ASSUME UNCHANGED <<status, keyVars>> PROVE OneOrderPerKey'
    BY <1>7 DEF keyVars, OneOrderPerKey, Created
  <1> QED
    BY <1>2, <1>3, <1>4, <1>5, <1>6, <1>7
       DEF Next, InitiatePayment, CustomerPays, SendReminders, SetInventoryStatus,
           OrderExpires, SlotTime, vars, orderVars

(* Any number of retries under a key buys once and is told of one order.   *)
THEOREM OneOrderPerKeyAlways == Spec => []OneOrderPerKey
  BY KeyInit, KeyNext, TypeCorrect, RowsAgreeAlways, PTL DEF Spec

-----------------------------------------------------------------------------
(* Payments                                                                *)

LEMMA BackedInit == Init => PaymentsBacked
  BY DEF Init, PaymentsBacked

LEMMA BackedNext ==
  TypeOK /\ RowsAgree /\ PaymentsBacked /\ [Next]_vars => PaymentsBacked'
  <1> SUFFICES ASSUME TypeOK, RowsAgree, PaymentsBacked, [Next]_vars
               PROVE  PaymentsBacked'
    OBVIOUS
  <1> USE DEF PaymentsBacked, orderVars, shopVars, keyVars, payVars, timeVars
  <1>1. ASSUME NEW k \in Key, NEW r \in Requests, CreateOrder(k, r)
        PROVE  PaymentsBacked'
    <2>1. PICK o \in Order : FirstAbsent(o) /\ InsertOrder(o, r)
      BY <1>1 DEF CreateOrder, CreateOrderUnder
    <2>2. UNCHANGED <<cancelLog, trade, recorded>>
      BY <1>1 DEF CreateOrder, CreateOrderUnder
    <2> QED
      BY <2>1, <2>2 DEF InsertOrder, TypeOK
  <1>2. ASSUME NEW k \in Key, NEW r \in Requests, ReplayOrder(k, r)
        PROVE  PaymentsBacked'
    BY <1>2 DEF ReplayOrder
  <1>3. ASSUME NEW o \in Order, InitiatePayment(o) PROVE PaymentsBacked'
    BY <1>3 DEF InitiatePayment, TypeOK
  <1>4. ASSUME NEW o \in Order, CustomerPays(o) PROVE PaymentsBacked'
    BY <1>4 DEF CustomerPays, TypeOK
  <1>5. ASSUME NEW o \in Order, Notify(o) PROVE PaymentsBacked'
    BY <1>5 DEF Notify, TypeOK
  <1>6. ASSUME CancelStale PROVE PaymentsBacked'
    <2>1. PICK S \in SUBSET StalePending : CancelBatch(S)
      BY <1>6 DEF CancelStale, Batches
    <2>2. S \in SUBSET Order /\ \A o \in S : payment[o] = "pending"
      BY DEF StalePending
    <2> QED
      BY <2>1, <2>2 DEF CancelBatch, TypeOK
  <1>7. ASSUME SendReminders PROVE PaymentsBacked'
    BY <1>7 DEF SendReminders
  <1>8. ASSUME ActivateDue PROVE PaymentsBacked'
    BY <1>8 DEF ActivateDue, ActivateBatch, TypeOK
  <1>9. ASSUME NEW p \in Product, NEW s \in {"in_stock", "sold_out"},
               SetInventoryStatus(p, s)
        PROVE  PaymentsBacked'
    BY <1>9 DEF SetInventoryStatus
  <1>10. ASSUME OrderExpires PROVE PaymentsBacked'
    BY <1>10 DEF OrderExpires
  <1>11. ASSUME NEW s \in Slot, SlotTime(s) PROVE PaymentsBacked'
    BY <1>11 DEF SlotTime
  <1>12. CASE UNCHANGED vars
    BY <1>12 DEF vars
  <1> QED
    BY <1>1, <1>2, <1>3, <1>4, <1>5, <1>6, <1>7, <1>8, <1>9, <1>10, <1>11, <1>12
       DEF Next

(* No order is marked paid without money, and a cancelled order is unpaid, *)
(* unseated and on record, however callbacks and cancellations interleave. *)
THEOREM PaymentsBackedAlways == Spec => []PaymentsBacked
  BY BackedInit, BackedNext, TypeCorrect, RowsAgreeAlways, PTL DEF Spec

LEMMA PaidStep ==
  ASSUME TypeOK, RowsAgree, [Next]_vars
  PROVE  [\A o \in Order : payment[o] = "paid" =>
            payment'[o] = "paid" /\ status'[o] \in {"paid", "in_production"}]_vars
  <1> SUFFICES ASSUME NEW o \in Order, payment[o] = "paid"
               PROVE  payment'[o] = "paid" /\ status'[o] \in {"paid", "in_production"}
    OBVIOUS
  <1> USE DEF orderVars, shopVars, keyVars, payVars, timeVars
  <1>1. status[o] \in {"paid", "in_production"}
    BY DEF RowsAgree
  <1>2. ASSUME NEW k \in Key, NEW r \in Requests, CreateOrder(k, r)
        PROVE  payment'[o] = payment[o] /\ status'[o] = status[o]
    <2>1. PICK q \in Order : FirstAbsent(q) /\ InsertOrder(q, r)
      BY <1>2 DEF CreateOrder, CreateOrderUnder
    <2> QED
      BY <1>1, <2>1 DEF FirstAbsent, InsertOrder, TypeOK
  <1>3. ASSUME NEW q \in Order, Notify(q)
        PROVE  payment'[o] = "paid" /\ status'[o] \in {"paid", "in_production"}
    BY <1>1, <1>3 DEF Notify, TypeOK
  <1>4. ASSUME CancelStale PROVE payment'[o] = payment[o] /\ status'[o] = status[o]
    <2>1. PICK S \in SUBSET StalePending : CancelBatch(S)
      BY <1>4 DEF CancelStale, Batches
    <2>2. o \notin S
      BY DEF StalePending
    <2> QED
      BY <2>1, <2>2 DEF CancelBatch
  <1>5. ASSUME ActivateDue
        PROVE  payment'[o] = "paid" /\ status'[o] \in {"paid", "in_production"}
    BY <1>1, <1>5 DEF ActivateDue, ActivateBatch
  <1>6. ASSUME UNCHANGED <<status, payment>>
        PROVE  payment'[o] = payment[o] /\ status'[o] = status[o]
    BY <1>6
  <1> QED
    BY <1>1, <1>2, <1>3, <1>4, <1>5, <1>6
       DEF Next, ReplayOrder, InitiatePayment, CustomerPays, SendReminders,
           SetInventoryStatus, OrderExpires, SlotTime, vars

(* Once paid, never cancelled and never unpaid: cancel_pending_order and   *)
(* handle_wechat_notification may run in either order.                     *)
THEOREM PaidSticksAlways == Spec => PaidSticks
  BY PaidStep, TypeCorrect, RowsAgreeAlways, PTL DEF Spec, PaidSticks
=============================================================================
