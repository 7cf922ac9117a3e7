-------------------------- MODULE MCOrderLifecycle --------------------------
(***************************************************************************)
(* A small shop for TLC: two products, one pickup slot with one seat, one  *)
(* coupon, and clients whose orders compete for all of them.               *)
(***************************************************************************)
EXTENDS OrderLifecycle, TLC

CONSTANTS tea, milk, noon, voucher, ann

Basket(t, m) == [p \in Product |-> IF p = tea THEN t ELSE m]

Payload(u, t, m, s, c, ch) ==
  [user |-> u, cups |-> Basket(t, m), slot |-> s, coupon |-> c, channel |-> ch]

MCStock == Basket(3, 1)

MCOwner == [c \in Coupon |-> ann]

\* ann reserves with her coupon; ann buys with the same coupon for now; a guest
\* reserves the same seat and names the coupon too.
Reserving   == Payload(ann, 2, 0, noon, voucher, "app")
WithCoupon  == Payload(ann, 1, 1, NoSlot, voucher, "app")
GuestSeat   == Payload(Guest, 1, 1, noon, voucher, "app")
AtTheTill   == Payload(Guest, 1, 0, NoSlot, NoCoupon, "pos_cash")

MCRequests == {Reserving, WithCoupon, GuestSeat, AtTheTill}

\* For the liveness run: two reservations that compete for the seat.
MCFewRequests == {Reserving, GuestSeat}

\* Keys are interchangeable; used by the safety runs only.
KeySymmetry == Permutations(Key)
=============================================================================
