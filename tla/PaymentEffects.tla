--------------------------- MODULE PaymentEffects ---------------------------
(***************************************************************************)
(* What follows a payment: the callback, or the clerk who matches a        *)
(* static-code payment, sends a process_payment_side_effects message after *)
(* its transaction, and a worker adds points to the customer's balance and *)
(* turns every ten of them into a coupon.  The orders are those of one     *)
(* customer; the rows of different customers are independent.              *)
(*                                                                         *)
(* A worker takes the lock of the users row when it reads the balance and  *)
(* holds it until its transaction ends; nothing retries a failed message.  *)
(***************************************************************************)
EXTENDS Integers, FiniteSets

CONSTANTS
  Purchase,       \* orders of the customer
  PointsOf,       \* cups of an order times loyalty_points_ratio, rounded down
  ByStaticCode,   \* orders that a clerk tries to match with a static-code payment
  Awarder,
  MaxDispatches,  \* bound: messages sent for one order
  NoAwarder, NoPurchase

ASSUME PurchasesAssumption == PointsOf \in [Purchase -> Nat] /\ ByStaticCode \subseteq Purchase

ASSUME EffectsAssumption ==
  /\ IsFiniteSet(Awarder)
  /\ MaxDispatches \in Nat
  /\ NoAwarder \notin Awarder /\ NoPurchase \notin Purchase

COUPON_THRESHOLD == 10

VARIABLES
  stage,          \* orders.status; "unpaid" stands for pending_payment and cancelled
  dispatched,     \* messages sent for an order
  messages,       \* messages in the broker
  awarder,        \* what each worker does, for which order, and the balance it read
  rowOwner,       \* the worker that holds the lock of the users row
  points,         \* users.loyalty_points
  awards,         \* "order_paid" rows of loyalty_transactions, for each order
  earned,         \* sum of delta_points over those rows
  coupons         \* coupons issued, each with a "coupon_grant" row of minus ten

effectsVars ==
  <<stage, dispatched, messages, awarder, rowOwner, points, awards, earned, coupons>>

AwarderState == [doing : {"nothing", "started", "locked"},
                 order : Purchase \cup {NoPurchase},
                 read  : Nat]

IdleAwarder == [doing |-> "nothing", order |-> NoPurchase, read |-> 0]

EffectsTypeOK ==
  /\ stage \in [Purchase -> {"unpaid", "paid", "in_production"}]
  /\ dispatched \in [Purchase -> 0..MaxDispatches]
  /\ messages \in [Purchase -> Nat]
  /\ awarder \in [Awarder -> AwarderState]
  /\ rowOwner \in Awarder \cup {NoAwarder}
  /\ points \in Nat
  /\ awards \in [Purchase -> Nat]
  /\ earned \in Nat
  /\ coupons \in Nat

EffectsInit ==
  /\ stage = [o \in Purchase |-> "unpaid"]
  /\ dispatched = [o \in Purchase |-> 0]
  /\ messages = [o \in Purchase |-> 0]
  /\ awarder = [w \in Awarder |-> IdleAwarder]
  /\ rowOwner = NoAwarder
  /\ points = 0
  /\ awards = [o \in Purchase |-> 0]
  /\ earned = 0
  /\ coupons = 0

-----------------------------------------------------------------------------
(* Payments                                                                *)

\* enqueue_payment_side_effects: an error of the broker is logged and forgotten.
Dispatch(o) ==
  /\ dispatched[o] < MaxDispatches
  /\ dispatched' = [dispatched EXCEPT ![o] = @ + 1]
  /\ \/ messages' = [messages EXCEPT ![o] = @ + 1]
     \/ UNCHANGED messages

\* handle_wechat_notification: the first one, and one that WeChat repeats after the
\* order has moved on; for an order that is "paid" the effects are not sent again.
NotifyPaid(o) ==
  /\ stage[o] # "paid"
  /\ stage' = [stage EXCEPT ![o] = "paid"]
  /\ Dispatch(o)
  /\ UNCHANGED <<awarder, rowOwner, points, awards, earned, coupons>>

\* match_payment, called by the route in the transaction in which the clerk was
\* looked up: nobody commits it, but the effects are sent.
MatchPayment(o) ==
  /\ o \in ByStaticCode /\ stage[o] = "unpaid"
  /\ Dispatch(o)
  /\ UNCHANGED <<stage, awarder, rowOwner, points, awards, earned, coupons>>

\* activate_due_orders
Activate(o) ==
  /\ stage[o] = "paid"
  /\ stage' = [stage EXCEPT ![o] = "in_production"]
  /\ UNCHANGED <<dispatched, messages, awarder, rowOwner, points, awards, earned, coupons>>

-----------------------------------------------------------------------------
(* process_payment_side_effects                                            *)

StartUnacknowledged(w, o) ==
  /\ awarder[w].doing = "nothing"
  /\ messages[o] > 0
  /\ awarder' = [awarder EXCEPT ![w] = [doing |-> "started", order |-> o, read |-> 0]]
  /\ UNCHANGED <<stage, dispatched, messages, rowOwner, points, awards, earned, coupons>>

\* The message is acknowledged before the task runs.
Start(w, o) ==
  /\ awarder[w].doing = "nothing"
  /\ messages[o] > 0
  /\ messages' = [messages EXCEPT ![o] = @ - 1]
  /\ awarder' = [awarder EXCEPT ![w] = [doing |-> "started", order |-> o, read |-> 0]]
  /\ UNCHANGED <<stage, dispatched, rowOwner, points, awards, earned, coupons>>

\* award_on_payment for an order that earns nothing.
NothingToAward(w) ==
  /\ awarder[w].doing = "started"
  /\ PointsOf[awarder[w].order] = 0
  /\ awarder' = [awarder EXCEPT ![w] = IdleAwarder]
  /\ UNCHANGED <<stage, dispatched, messages, rowOwner, points, awards, earned, coupons>>

LockUserUnlocked(w) ==
  /\ awarder[w].doing = "started"
  /\ PointsOf[awarder[w].order] > 0
  /\ rowOwner' = w
  /\ awarder' = [awarder EXCEPT ![w].doing = "locked", ![w].read = points]
  /\ UNCHANGED <<stage, dispatched, messages, points, awards, earned, coupons>>

\* SELECT ... FOR UPDATE of the users row.  skip_duplicate_check is set, so that
\* nothing looks for an earlier award.
LockUser(w) ==
  /\ awarder[w].doing = "started"
  /\ PointsOf[awarder[w].order] > 0
  /\ rowOwner = NoAwarder
  /\ rowOwner' = w
  /\ awarder' = [awarder EXCEPT ![w].doing = "locked", ![w].read = points]
  /\ UNCHANGED <<stage, dispatched, messages, points, awards, earned, coupons>>

Augmented(w) == awarder[w].read + PointsOf[awarder[w].order]

\* The rest of award_on_payment, and the commit.
Award(w) ==
  /\ awarder[w].doing = "locked"
  /\ points' = Augmented(w) % COUPON_THRESHOLD
  /\ coupons' = coupons + (Augmented(w) \div COUPON_THRESHOLD)
  /\ earned' = earned + PointsOf[awarder[w].order]
  /\ awards' = [awards EXCEPT ![awarder[w].order] = @ + 1]
  /\ rowOwner' = NoAwarder
  /\ awarder' = [awarder EXCEPT ![w] = IdleAwarder]
  /\ UNCHANGED <<stage, dispatched, messages>>

\* An exception is logged and the message is gone; so it is when the worker dies.
FailAward(w) ==
  /\ awarder[w].doing # "nothing"
  /\ rowOwner' = IF rowOwner = w THEN NoAwarder ELSE rowOwner
  /\ awarder' = [awarder EXCEPT ![w] = IdleAwarder]
  /\ UNCHANGED <<stage, dispatched, messages, points, awards, earned, coupons>>

-----------------------------------------------------------------------------
EffectsNext ==
  \/ \E o \in Purchase : NotifyPaid(o) \/ MatchPayment(o) \/ Activate(o)
  \/ \E w \in Awarder, o \in Purchase : Start(w, o)
  \/ \E w \in Awarder : NothingToAward(w) \/ LockUser(w) \/ Award(w) \/ FailAward(w)

EffectsSpec == EffectsInit /\ [][EffectsNext]_effectsVars

-----------------------------------------------------------------------------
(* No point is lost or counted twice by workers that award orders of the   *)
(* same customer at the same time: the balance and the coupons account for *)
(* every ledger row, and the balance never reaches the price of a coupon.  *)
LedgerBalances ==
  /\ earned = points + COUPON_THRESHOLD * coupons
  /\ points < COUPON_THRESHOLD

InProgress(o) == {w \in Awarder : awarder[w].order = o}

(* A message awards at most once, whichever worker takes it and wherever   *)
(* that worker fails: there are no more awards than messages sent.         *)
AwardPerDispatch ==
  \A o \in Purchase : awards[o] + messages[o] + Cardinality(InProgress(o)) <= dispatched[o]
=============================================================================
