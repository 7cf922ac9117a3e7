--------------------------- MODULE MCShopServices ---------------------------
(***************************************************************************)
(* Parts of the backend that share no state, side by side: in each         *)
(* behaviour one of them, the one in focus, moves, and the others stay as  *)
(* they begin.  One instance of TLC explores the sum of their states.      *)
(***************************************************************************)
EXTENDS PaymentEffects, MerchantNotifier, MenuCache, Advertisements, UserAddresses, Pricing,
        PublicConfig, Reconciliation, Customers, PaymentMatch, Dashboard,
        ReservationPlan, TLC

VARIABLE focus

CONSTANTS worker1, worker2, reader1, reader2, tea, milk, pearls, green, black, t1, q1,
          large, small, empty

MCHome == [r \in Reader |-> IF r = reader1 THEN worker1 ELSE worker2]

MCSchedules == {[start |-> 0, end |-> Never], [start |-> 5, end |-> 7]}

Line(p, n, options) == [product |-> p, quantity |-> n, options |-> options]
MCCarts == {<<Line(tea, 1, <<pearls>>)>>, <<Line(tea, 1, <<pearls>>), Line(milk, 2, <<>>)>>,
            <<Line(tea, 1, <<>>), Line(tea, 1, <<pearls, pearls>>)>>}
MCExtra == [o \in SpecOption |-> 300]
MCOptionsOf == [p \in CartProduct |-> IF p = tea THEN SpecOption ELSE {}]

Coupon(kind, off, least, percent, most) ==
  [kind |-> kind, off |-> off, least |-> least, percent |-> percent, most |-> most]
MCCoupons == {Coupon("amount_off", 5000, 2000, 0, 0), Coupon("percentage_off", 0, 0, 15, 400),
              Coupon("percentage_off", 0, 0, 100, 9000), Coupon("free_any_drink", 0, 0, 0, 0),
              Coupon("other", 0, 0, 0, 0)}

MCPrice == [o \in Order |-> 1]
MCCreatedAt == [o \in Order |-> IF o = black THEN 3 ELSE 1]

Request(txn, qr, at, force) ==
  [txn |-> txn, qr |-> qr, amount |-> 1, at |-> at, force |-> force]
MCAsks == {Request(t1, NoQr, 1, NoOrder), Request(t1, NoQr, 1, black),
           Request(NoTxn, q1, 2, NoOrder)}

Unmatched(txn) == [txn |-> txn, qr |-> NoQr, amount |-> 1, at |-> 1, match |-> "unmatched",
                   order |-> NoOrder]
MCImported == <<Unmatched(t1), Unmatched(NoTxn)>>

\* Two orders of one customer fill the coupon card with a rest, again when they are awarded
\* again; the third earns nothing.
MCPoints == [o \in Purchase |-> CASE o = large -> 13 [] o = small -> 6 [] OTHER -> 0]

Open(weekday, start, end) == [weekday |-> weekday, start |-> start, end |-> end]
MCHours == {NoHours, {}, {Open(1, 3, 6), Open(1, 8, 9), Open(2, 4, 4), Open(3, 2, 9)},
            {Open(1, 9, 10)}, {Open(3, 5, 9)}, {Open(2, 1, 5), Open(1, 8, 11), Open(1, 2, 8)},
            {Open(1, 8, 1)}}

-----------------------------------------------------------------------------
Parts == {"notifier", "menu", "ads", "addresses", "pricing", "config", "reconciliation",
          "customers", "match", "effects", "dashboard", "plan"}

\* A part that is not in focus begins in one state only.
ServicesInit ==
  /\ focus \in Parts
  /\ NotifierInit /\ MenuInit /\ AddressInit /\ ConfigInit /\ ReconciliationInit
  /\ MatchInit /\ (focus # "match" => \A r \in Pay : rec[r] = NoRecord)
  /\ AdInit /\ (focus # "ads" => ad = [a \in Ad |-> NoAd])
  /\ PricingInit
  /\ focus # "pricing" =>
       /\ ~ wallet.signedIn /\ soldOut = {}
       /\ \A p \in CartProduct : menu[p].stock = Unlimited /\ menu[p].price = Min(UnitPrices)
  /\ EffectsInit /\ DashboardInit
  /\ PlanInit /\ (focus # "plan" => openHours = NoHours)
  /\ CustomersInit /\ (focus # "customers" => userSeq = 0)

ServicesNext ==
  /\ UNCHANGED focus
  /\ \/ focus = "notifier" /\ NotifierNext
     \/ focus = "menu" /\ MenuNext
     \/ focus = "ads" /\ AdNext
     \/ focus = "addresses" /\ AddressNext
     \/ focus = "pricing" /\ PricingNext
     \/ focus = "config" /\ ConfigNext
     \/ focus = "reconciliation" /\ ReconciliationNext
     \/ focus = "customers" /\ CustomersNext
     \/ focus = "match" /\ MatchNext
     \/ focus = "effects" /\ EffectsNext
     \/ focus = "dashboard" /\ DashboardNext
     \/ focus = "plan" /\ PlanNext
  /\ focus # "notifier" => UNCHANGED notifierVars
  /\ focus # "menu" => UNCHANGED menuVars
  /\ focus # "ads" => UNCHANGED adVars
  /\ focus # "addresses" => UNCHANGED addressVars
  /\ focus # "pricing" => UNCHANGED pricingVars
  /\ focus # "config" => UNCHANGED configVars
  /\ focus # "reconciliation" => UNCHANGED reconciliationVars
  /\ focus # "customers" => UNCHANGED customerVars
  /\ focus # "match" => UNCHANGED matchVars
  /\ focus # "effects" => UNCHANGED effectsVars
  /\ focus # "dashboard" => UNCHANGED boardVars
  /\ focus # "plan" => UNCHANGED planVars

ServicesVars == <<focus, notifierVars, menuVars, adVars, addressVars, pricingVars, configVars,
                  reconciliationVars, customerVars, matchVars, effectsVars, boardVars,
                  planVars>>

ServicesSpec == ServicesInit /\ [][ServicesNext]_ServicesVars

\* Only the part in focus tells states apart: the others have not moved.
InFocus ==
  CASE focus = "notifier" -> <<focus, notifierVars>>
    [] focus = "menu" -> <<focus, menuVars>>
    [] focus = "ads" -> <<focus, adVars>>
    [] focus = "addresses" -> <<focus, addressVars>>
    [] focus = "pricing" -> <<focus, pricingVars>>
    [] focus = "config" -> <<focus, configVars>>
    [] focus = "reconciliation" -> <<focus, reconciliationVars>>
    [] focus = "customers" -> <<focus, customerVars>>
    [] focus = "match" -> <<focus, matchVars>>
    [] focus = "effects" -> <<focus, effectsVars>>
    [] focus = "dashboard" -> <<focus, boardVars>>
    [] focus = "plan" -> <<focus, planVars>>

\* The configuration calls requests and tasks of several parts by the same names.
Actors == Permutations(Session)

\* The type invariants of the parts; only the part in focus has moved.
ServicesTypeOK ==
  /\ focus = "notifier" => NotifierTypeOK
  /\ focus = "menu" => MenuTypeOK
  /\ focus = "ads" => AdTypeOK
  /\ focus = "addresses" => AddressTypeOK
  /\ focus = "pricing" => PricingTypeOK
  /\ focus = "config" => ConfigTypeOK
  /\ focus = "reconciliation" => ReconciliationTypeOK
  /\ focus = "customers" => CustomersTypeOK
  /\ focus = "match" => MatchTypeOK
  /\ focus = "effects" => EffectsTypeOK
  /\ focus = "dashboard" => DashboardTypeOK
  /\ focus = "plan" => PlanTypeOK
=============================================================================
