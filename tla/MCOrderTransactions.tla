------------------------ MODULE MCOrderTransactions ------------------------
(***************************************************************************)
(* Sessions that compete for the rows of a small shop.                     *)
(***************************************************************************)
EXTENDS OrderTransactions, TLC

CONSTANTS tea, milk, noon, voucher, ann

Basket(t, m) == [p \in Product |-> IF p = tea THEN t ELSE m]

Payload(u, t, m, s, c) ==
  [user |-> u, cups |-> Basket(t, m), slot |-> s, coupon |-> c, channel |-> "app"]

MCStock == Basket(2, 1)

MCOwner == [c \in Coupon |-> ann]

\* Sessions that serve the first two compete for tea, and those that serve TeaAndMilk
\* may lock its products in opposite orders.
WithCoupon == Payload(ann, 1, 0, NoSlot, voucher)
TeaAndMilk == Payload(Guest, 1, 1, NoSlot, NoCoupon)
GuestSeat  == Payload(Guest, 1, 0, noon, NoCoupon)

MCRequests == {WithCoupon, TeaAndMilk}

MCReservations == {GuestSeat}

SessionSymmetry == Permutations(Client) \cup Permutations(Key)
TaskSymmetry == Permutations(Key) \cup Permutations(Batcher)
=============================================================================
