--------------------------- MODULE PaymentLedger ---------------------------
(***************************************************************************)
(* What the match of static-code payments promises the shop's books: an    *)
(* order is paid once, by one payment or elsewhere (WeChat, the till), and *)
(* a payment that has paid an order never pays a second one and is never   *)
(* taken back.  PaymentMatch implements it.                                *)
(***************************************************************************)
CONSTANTS Order, Payment, NoPayment  \* NoPayment \notin Payment

VARIABLES
  paid,    \* orders that are paid
  paidBy   \* the static-code payment behind an order, if that is how it was paid

ledger == <<paid, paidBy>>

Init ==
  /\ paid \in SUBSET Order
  /\ paidBy = [o \in Order |-> NoPayment]

\* An order that is not paid is paid.
Pay(o) == o \notin paid /\ paid' = paid \cup {o}

\* A clerk books payment p on order o.
Book(p, o) ==
  /\ \A other \in Order : paidBy[other] # p
  /\ paidBy' = [paidBy EXCEPT ![o] = p]

\* A clerk does so, or the order is paid some other way.
Next ==
  \E o \in Order :
    /\ Pay(o)
    /\ \/ \E p \in Payment : Book(p, o)
       \/ UNCHANGED paidBy

Spec == Init /\ [][Next]_ledger
=============================================================================
