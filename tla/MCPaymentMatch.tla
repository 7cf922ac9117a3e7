--------------------------- MODULE MCPaymentMatch ---------------------------
(* Two orders of one price, one of another; payments named by transaction,  *)
(* by the session of the code and by neither.                               *)
EXTENDS PaymentMatch, TLC

CONSTANTS green, black, oolong, t1, q1

MCPrice == [o \in Order |-> IF o = oolong THEN 2 ELSE 1]
MCCreatedAt == [o \in Order |-> IF o = black THEN 3 ELSE 1]

Request(txn, qr, amount, at, force) ==
  [txn |-> txn, qr |-> qr, amount |-> amount, at |-> at, force |-> force]

MCAsks == {Request(t1, NoQr, 1, 1, NoOrder),
           Request(t1, NoQr, 1, 1, black),
           Request(NoTxn, q1, 1, 2, NoOrder)}

Unmatched(txn) == [txn |-> txn, qr |-> NoQr, amount |-> 1, at |-> 1, match |-> "unmatched",
                   order |-> NoOrder]
MCImported == <<Unmatched(t1), Unmatched(NoTxn)>>

SessionSymmetry == Permutations(Session)
=============================================================================
