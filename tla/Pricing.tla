------------------------------ MODULE Pricing ------------------------------
(***************************************************************************)
(* The price of a cart is worked out twice: by calculate_price_only() for  *)
(* POST /orders/calculate, which is what the customer is shown, and by     *)
(* create_order(), which is what the customer owes.  The two do not know   *)
(* the same discounts.  Amounts are in cents.                              *)
(***************************************************************************)
EXTENDS Integers, Sequences, FiniteSetsExt

CONSTANTS
  CartProduct,
  UnitPrices, Stocks,   \* values of a product; a stock is a number or Unlimited
  SpecOption, Extra,    \* options, and what each adds to the price
  OptionsOf,            \* of each product, the options of its groups, or all if it has none
  Carts,                \* sequences of lines: product, quantity and a sequence of options
  Coupons,              \* records: kind, off, least, percent, most
  PointValues,          \* points of the customer, and points asked for
  Unlimited, NoCoupon, NoQuote, Refused

ASSUME PricingAssumption ==
  /\ UnitPrices \subseteq Nat /\ Stocks \subseteq Nat \cup {Unlimited}
  /\ PointValues \subseteq Nat /\ 0 \in PointValues
  /\ Carts \subseteq
       Seq([product : CartProduct, quantity : Nat \ {0}, options : Seq(SpecOption)])
  /\ Extra \in [SpecOption -> Nat] /\ OptionsOf \in [CartProduct -> SUBSET SpecOption]
  /\ \A c \in Coupons :
       /\ c.kind \in {"amount_off", "percentage_off", "free_any_drink", "other"}
       /\ c.off \in Nat /\ c.least \in Nat /\ c.percent \in 0..100 /\ c.most \in Nat
  /\ NoQuote \notin Nat /\ Refused \notin Nat /\ NoQuote # Refused

VARIABLES
  menu,     \* of each product: price, stock, whether it is on sale
  soldOut,  \* the options that are not in stock
  wallet,   \* of the customer: signed in, coupon (while it is active), points
  quote,    \* the last quote
  charge,   \* what the order that followed it owes, or Refused
  edited    \* history: something changed since the quote

pricingVars == <<menu, soldOut, wallet, quote, charge, edited>>

PricingTypeOK ==
  /\ \A p \in CartProduct : /\ menu[p].price \in UnitPrices /\ menu[p].onSale \in BOOLEAN
                            /\ menu[p].stock = Unlimited \/ menu[p].stock \in Nat
  /\ soldOut \subseteq SpecOption
  /\ wallet.coupon \in Coupons \cup {NoCoupon} /\ wallet.points \in PointValues
  /\ quote # NoQuote => quote.total \in Nat /\ quote.subtotal \in Nat
  /\ charge = NoQuote \/ charge = Refused \/ charge \in Nat
  /\ edited \in BOOLEAN

-----------------------------------------------------------------------------
(* Both calculations                                                       *)

AtMost(x, y) == IF x <= y THEN x ELSE y

NotNegative(x) == IF x < 0 THEN 0 ELSE x

\* _pick_spec_options() adds up the modifiers; an option that is named twice counts twice.
LinePrice(m, line) ==
  m[line.product].price + SumFunction([j \in DOMAIN line.options |-> Extra[line.options[j]]])

LinePrices(m, cart) == {LinePrice(m, cart[i]) : i \in DOMAIN cart}

\* Every option is one of the product's, and in stock.
OptionsFit(cart) ==
  \A i \in DOMAIN cart : \A j \in DOMAIN cart[i].options :
    cart[i].options[j] \in OptionsOf[cart[i].product] \ soldOut

Subtotal(m, cart) ==
  SumFunction([i \in DOMAIN cart |-> LinePrice(m, cart[i]) * cart[i].quantity])

\* _calculate_coupon(): the discount of coupon c, rounded half up.
CouponDiscount(c, subtotal, cheapest) ==
  CASE c.kind = "amount_off" -> IF subtotal < c.least THEN 0 ELSE AtMost(c.off, subtotal)
    [] c.kind = "percentage_off" ->
         AtMost((subtotal * c.percent + 50) \div 100, AtMost(c.most, subtotal))
    [] c.kind = "free_any_drink" -> cheapest
    [] c.kind = "other" -> 0

\* _calculate_points(): at most 30 % of what is left to pay; a point is a cent.
PointsDiscount(asked, owned, payable) ==
  AtMost(AtMost(asked, owned), (payable * 30) \div 100)

\* _calculate_delivery_fee()
DeliveryFee(delivery, subtotal) == IF delivery /\ subtotal < 3000 THEN 600 ELSE 0

QuotedTotal(subtotal, discount, points, fee) == NotNegative(subtotal - discount - points + fee)

ChargedTotal(subtotal, free) == NotNegative(subtotal - free)

CheapestWithoutOptions(m, cart) == Min({m[cart[i].product].price : i \in DOMAIN cart})

\* What create_order() takes off for a free drink.
FreeDrink(m, cart) == Min(LinePrices(m, cart))

\* The loop of calculate_price_only() looks at each line alone ...
EachAvailable(m, cart) ==
  \A i \in DOMAIN cart :
    LET p == m[cart[i].product] IN
    p.onSale /\ (p.stock # Unlimited => cart[i].quantity <= p.stock)

Wanted(cart, p) ==
  SumFunction([i \in DOMAIN cart |-> IF cart[i].product = p THEN cart[i].quantity ELSE 0])

\* ... and that of create_order() takes the cups of a line before it looks at the next.
AllAvailable(m, cart) ==
  \A p \in {cart[i].product : i \in DOMAIN cart} :
    m[p].onSale /\ (m[p].stock # Unlimited => Wanted(cart, p) <= m[p].stock)

-----------------------------------------------------------------------------
PricingInit ==
  /\ menu \in [CartProduct -> [price : UnitPrices, stock : Stocks, onSale : {TRUE}]]
  /\ soldOut \in SUBSET SpecOption
  /\ wallet \in [signedIn : {TRUE}, coupon : Coupons \cup {NoCoupon}, points : PointValues]
                  \cup [signedIn : {FALSE}, coupon : {NoCoupon}, points : {0}]
  /\ quote = NoQuote /\ charge = NoQuote /\ edited = FALSE

\* A coupon or points need a customer who is signed in.
Quote(cart, coupon, points, delivery) ==
  LET subtotal == Subtotal(menu, cart)
      discount == IF coupon = NoCoupon THEN 0
                  ELSE CouponDiscount(coupon, subtotal, Min(LinePrices(menu, cart)))
      used == PointsDiscount(points, wallet.points, NotNegative(subtotal - discount))
      fee == DeliveryFee(delivery, subtotal)
  IN /\ quote = NoQuote /\ cart # <<>>
     /\ EachAvailable(menu, cart) /\ OptionsFit(cart)
     /\ coupon \in {NoCoupon, wallet.coupon}
     /\ points > 0 => wallet.signedIn
     /\ quote' = [cart |-> cart, coupon |-> coupon, subtotal |-> subtotal, discount |-> discount,
                  points |-> used, fee |-> fee,
                  total |-> QuotedTotal(subtotal, discount, used, fee)]
     /\ edited' = FALSE
     /\ UNCHANGED <<menu, soldOut, wallet, charge>>

\* The customer orders the cart of the quote: create_order() knows neither points nor the
\* fee, and of the coupons it takes, only the free drink; it sets any of them to "used".
OrderQuoted ==
  LET subtotal == Subtotal(menu, quote.cart)
      free == IF quote.coupon # NoCoupon /\ quote.coupon.kind = "free_any_drink"
              THEN FreeDrink(menu, quote.cart) ELSE 0
      accepted == /\ AllAvailable(menu, quote.cart) /\ OptionsFit(quote.cart)
                  /\ quote.coupon \in {NoCoupon, wallet.coupon}
  IN /\ quote # NoQuote /\ charge = NoQuote
     /\ charge' = IF accepted THEN ChargedTotal(subtotal, free) ELSE Refused
     /\ menu' = IF ~ accepted THEN menu
                ELSE [p \in CartProduct |->
                       IF menu[p].stock = Unlimited THEN menu[p]
                       ELSE [menu[p] EXCEPT !.stock = @ - Wanted(quote.cart, p)]]
     /\ wallet' = IF accepted /\ quote.coupon # NoCoupon
                  THEN [wallet EXCEPT !.coupon = NoCoupon] ELSE wallet
     /\ UNCHANGED <<soldOut, quote, edited>>

\* Meanwhile a clerk edits a product, another customer takes cups, or the coupon is used.
EditMenu(p) ==
  /\ quote # NoQuote /\ charge = NoQuote /\ ~ edited
  /\ \E row \in [price : UnitPrices, stock : Stocks, onSale : BOOLEAN] :
       row # menu[p] /\ menu' = [menu EXCEPT ![p] = row]
  /\ edited' = TRUE
  /\ UNCHANGED <<soldOut, wallet, quote, charge>>

\* update_spec_option_inventory(), committed.
EditOption(o) ==
  /\ quote # NoQuote /\ charge = NoQuote /\ ~ edited
  /\ soldOut' = IF o \in soldOut THEN soldOut \ {o} ELSE soldOut \cup {o}
  /\ edited' = TRUE
  /\ UNCHANGED <<menu, wallet, quote, charge>>

SpendCoupon ==
  /\ quote # NoQuote /\ charge = NoQuote /\ wallet.coupon # NoCoupon
  /\ wallet' = [wallet EXCEPT !.coupon = NoCoupon]
  /\ edited' = TRUE
  /\ UNCHANGED <<menu, soldOut, quote, charge>>

PricingNext ==
  \/ \E cart \in Carts, coupon \in Coupons \cup {NoCoupon}, points \in PointValues, d \in BOOLEAN :
       Quote(cart, coupon, points, d)
  \/ OrderQuoted
  \/ \E p \in CartProduct : EditMenu(p)
  \/ \E o \in SpecOption : EditOption(o)
  \/ SpendCoupon

PricingSpec == PricingInit /\ [][PricingNext]_pricingVars

-----------------------------------------------------------------------------
(* Properties                                                              *)

NoRepeats(cart) == \A i, j \in DOMAIN cart : cart[i].product = cart[j].product => i = j

\* A customer who orders what was quoted, before anything else changed, is refused only when
\* two lines ask for the same product; otherwise the charge is the quote except for what the
\* order leaves out: the fee, the points and the coupons that are no free drink.  So it is the
\* quote to the cent for a pickup without these, and never less than the quote but the fee.
QuoteIsKept ==
  quote # NoQuote /\ charge # NoQuote /\ ~ edited =>
    IF charge = Refused THEN ~ NoRepeats(quote.cart)
    ELSE LET lost == IF quote.coupon = NoCoupon \/ quote.coupon.kind = "free_any_drink"
                     THEN 0 ELSE quote.discount
         IN quote.total = charge - lost - quote.points + quote.fee
=============================================================================
