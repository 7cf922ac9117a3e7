--------------------------- MODULE Reconciliation ---------------------------
(***************************************************************************)
(* The daily reconciliation of orders and payment records                  *)
(* (app/services/reconciliation.py): orders of a day by their creation,    *)
(* payments by the time they were paid.  It runs from beat for the day     *)
(* before, and from a script for any day.  A payment can reach the shop    *)
(* days after it was made, an order of the till has no record, and an      *)
(* order can have two.                                                     *)
(***************************************************************************)
EXTENDS Integers, FiniteSets

CONSTANTS
  Bill, Receipt,  \* orders and payment records
  MaxDay,         \* bound
  NoBill, NoReport

ASSUME ReconciliationAssumption == MaxDay \in Nat /\ NoBill \notin Bill

VARIABLES
  day,
  bill,      \* of each order: the day of its creation (0: not yet), whether it is paid
  receipt,   \* of each record: the day it was paid (0: not received), and its order
  report     \* of each day: what the last run for it found, on which day, and the records
             \* that had been received by then

reconciliationVars == <<day, bill, receipt, report>>

Known == {b \in Bill : bill[b].created # 0}
Received == {r \in Receipt : receipt[r].paid # 0}

ReconciliationTypeOK ==
  /\ day \in Nat
  /\ \A b \in Bill : bill[b].created \in 0..day /\ bill[b].paid \in BOOLEAN
  /\ \A r \in Receipt : receipt[r].paid \in 0..day /\ receipt[r].order \in Known \cup {NoBill}
  /\ \A d \in DOMAIN report : report[d] # NoReport =>
       /\ report[d].made \in d..day /\ report[d].orders \subseteq Known
       /\ report[d].payments \cup report[d].received \subseteq Received

ReconciliationInit ==
  /\ day = 1
  /\ bill = [b \in Bill |-> [created |-> 0, paid |-> FALSE]]
  /\ receipt = [r \in Receipt |-> [paid |-> 0, order |-> NoBill]]
  /\ report = [d \in 1..MaxDay |-> NoReport]

\* An order, of a customer or of the till, where it may be paid at once.
CreateBill(b) ==
  /\ bill[b].created = 0
  /\ \E paid \in BOOLEAN : bill' = [bill EXCEPT ![b] = [created |-> day, paid |-> paid]]
  /\ UNCHANGED <<day, receipt, report>>

\* A callback, for a payment of day d.  Its record names the order, whatever the status of the
\* order is: paid already, at the till or by another transaction, or cancelled.  A callback
\* for an order that does not exist stores nothing.
ReceivePayment(r, d) ==
  /\ receipt[r].paid = 0 /\ d <= day
  /\ \E b \in Known :
       /\ bill[b].created <= d
       /\ bill' = [bill EXCEPT ![b].paid = TRUE]
       /\ receipt' = [receipt EXCEPT ![r] = [paid |-> d, order |-> b]]
  /\ UNCHANGED <<day, report>>

\* The import of payments with the static code, which is not part of the repository.  Their
\* match with an order is not committed (PaymentMatch): the record stays without one.
ImportReceipt(r, d) ==
  /\ receipt[r].paid = 0 /\ d <= day
  /\ receipt' = [receipt EXCEPT ![r].paid = d]
  /\ UNCHANGED <<day, bill, report>>

\* Records of orders of the day, by whatever day they were paid.
PaymentsOfBills(d) ==
  {r \in Received : receipt[r].order # NoBill /\ bill[receipt[r].order].created = d}

\* _fetch_orders() and _fetch_payments() of day d
BillsOf(d) == {b \in Known : bill[b].created = d /\ bill[b].paid}

PaymentsOf(d) == {r \in Received : receipt[r].paid = d}

\* run_daily(): refunds are read as well, but nothing writes one.
RunDaily(d) ==
  LET payments == PaymentsOf(d)
      matched == {receipt[r].order : r \in payments}
  IN /\ d <= day
     /\ report' = [report EXCEPT ![d] =
          [orders |-> {b \in BillsOf(d) : b \notin matched},
           payments |-> {r \in payments : receipt[r].order = NoBill},
           made |-> day, received |-> Received]]
     /\ UNCHANGED <<day, bill, receipt>>

Midnight == day < MaxDay /\ day' = day + 1 /\ UNCHANGED <<bill, receipt, report>>

ReconciliationNext ==
  \/ \E b \in Bill : CreateBill(b)
  \/ \E r \in Receipt, d \in 1..MaxDay : ReceivePayment(r, d) \/ ImportReceipt(r, d)
  \/ \E d \in 1..MaxDay : RunDaily(d)
  \/ Midnight

ReconciliationSpec == ReconciliationInit /\ [][ReconciliationNext]_reconciliationVars

-----------------------------------------------------------------------------
(* Properties                                                              *)

\* However late orders are paid and records arrive, and whatever pays an order twice: a
\* payment without an order is on the report of its day if it had been received; an order of a
\* day that was over, paid by now and not on its report, has a payment of that very day or one
\* that arrived after the report; and an order on a report was paid and had no payment of the
\* day by then.
GapsAreReported ==
  \A d \in DOMAIN report : report[d] # NoReport =>
    LET found == report[d]
        Pays(r, b) == receipt[r].order = b /\ receipt[r].paid = d
    IN /\ \A r \in found.received : Pays(r, NoBill) => r \in found.payments
       /\ \A b \in Known \ found.orders :
            found.made > d /\ bill[b].created = d /\ bill[b].paid =>
              \E r \in Received : \/ Pays(r, b)
                                  \/ receipt[r].order = b /\ r \notin found.received
       /\ \A b \in found.orders : /\ bill[b].paid
                                  /\ ~ \E r \in found.received : Pays(r, b)
=============================================================================
