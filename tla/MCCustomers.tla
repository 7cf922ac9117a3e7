---------------------------- MODULE MCCustomers ----------------------------
(* Two accounts, some of them stored before, and no guests.                 *)
EXTENDS Customers
=============================================================================
