-------------------------------- MODULE Checkout --------------------------------
(***************************************************************************)
(* A customer's cart in one store and the requests that close it           *)
(* (CartService, storefront_cart, storefront_checkout and                  *)
(* OrderService.place), while the merchant changes prices, tiers, stock,   *)
(* zones and coupon, the customer edits cart and addresses in other tabs,  *)
(* freight quotations grow old, and the browser retries.                   *)
(*                                                                         *)
(* A request carries an Idempotency-Key; the wrapper that replays answers  *)
(* (audit/idempotency) reads the key's row, takes it (insert or update,    *)
(* which waits for another holder) and stores the answer with the order's  *)
(* own transaction.  What follows the taking of the key is one action:     *)
(* the cart is locked first and everything else read or locked after it.   *)
(* Stock reservations, transitions and payments are Sales and Payments.    *)
(***************************************************************************)
EXTENDS Integers, Sequences, FiniteSets, FiniteSetsExt, SequencesExt

-----------------------------------------------------------------------------
(***************************************************************************)
(* The pricing, of pure functions (catalog/pricing, pricing/quote,         *)
(* coupons/rules, fulfillment): money is cents, quantities are thousandths *)
(* of the unit, instants are numbers.                                      *)
(*                                                                         *)
(* An offer is a sellable variant with what it takes from its product:     *)
(*   [active, byUnit, tracked, own, base, promo, starts, ends, soldOut,    *)
(*    ownTiers, tiers, groups, stock, product]                             *)
(* where own, promo, starts, ends and soldOut may be None, the tiers are   *)
(* sets of <<least quantity, price>> and the groups of modifiers are sets  *)
(* of [least, most, price], price being a function of the active ones.     *)
(* A line is [variant, milli, chosen].                                     *)
(***************************************************************************)
None == -1
Lesser(a, b) == IF a < b THEN a ELSE b

-----------------------------------------------------------------------------
(* The price of one unit *)

\* `promo_deadline`: the chosen end, or the instant the stock ended.
PromoDeadline(o) ==
    IF o.soldOut = None THEN o.ends
    ELSE IF o.ends = None THEN o.soldOut ELSE Lesser(o.ends, o.soldOut)

PromoIsActive(o, now) ==
    /\ o.promo # None /\ 0 < o.promo /\ o.promo < o.base
    /\ o.starts = None \/ now >= o.starts
    /\ PromoDeadline(o) = None \/ now < PromoDeadline(o)

\* A variant with its own price ignores the promotion.
VariantPrice(o, now) ==
    IF o.own # None THEN o.own
    ELSE IF PromoIsActive(o, now) THEN o.promo ELSE o.base

TierPrice(tiers, milli) ==
    LET reached == {t \in tiers : milli >= t[1]}
    IN  IF reached = {} THEN None
        ELSE (CHOOSE t \in reached : \A u \in reached : u[1] <= t[1])[2]

\* The promotion and the tier do not add up: the lesser of the two.
ApplyTiers(price, tiers, milli) ==
    LET p == TierPrice(tiers, milli)
    IN  IF p = None \/ p >= price THEN price ELSE p

\* `check_tiers`: what the panel accepts.
TiersFall(tiers, base) ==
    /\ \A t \in tiers : t[1] > 0 /\ t[2] > 0 /\ t[2] < base
    /\ \A t, u \in tiers : t # u => t[1] # u[1] /\ (t[1] < u[1] => u[2] < t[2])

Known(groups) == UNION {DOMAIN g.price : g \in groups}
ModifiersFit(groups, chosen) ==
    /\ chosen \subseteq Known(groups)
    /\ \A g \in groups : Cardinality(chosen \cap DOMAIN g.price) \in g.least .. g.most
ModifiersPrice(groups, chosen) ==
    MapThenSumSet(LAMBDA g : MapThenSumSet(LAMBDA m : g.price[m], chosen \cap DOMAIN g.price), groups)

\* The tiers of the variant measure that variant over the whole cart, those of the product all of
\* its variants.
InCart(lines, Wanted(_)) ==
    MapThenSumSet(LAMBDA i : IF Wanted(lines[i]) THEN lines[i].milli ELSE 0, DOMAIN lines)
UnitPrice(offer, lines, i, now) ==
    LET o == offer[lines[i].variant]
        measured == IF o.ownTiers # {}
                    THEN InCart(lines, LAMBDA l : l.variant = lines[i].variant)
                    ELSE InCart(lines, LAMBDA l : /\ l.variant \in DOMAIN offer
                                                  /\ offer[l.variant].product = o.product)
        tiers == IF o.ownTiers # {} THEN o.ownTiers ELSE o.tiers
    IN  ApplyTiers(VariantPrice(o, now), tiers, measured) + ModifiersPrice(o.groups, lines[i].chosen)

LineSubtotal(unit, milli) == (unit * milli + 500) \div 1000

-----------------------------------------------------------------------------
(* The lines *)

QuantityOk(o, milli) == milli > 0 /\ (o.byUnit => milli % 1000 = 0)

\* What is wrong with line i before its stock is looked at.
Sellable(offer, line) ==
    LET o == offer[line.variant]
    IN  /\ line.variant \in DOMAIN offer /\ o.active
        /\ QuantityOk(o, line.milli)
        /\ ModifiersFit(o.groups, line.chosen)

\* The stock is shared by the lines of a variant, in their order.
InStock(offer, lines, i) ==
    LET o == offer[lines[i].variant]
        before == {j \in 1..i : lines[j].variant = lines[i].variant /\ Sellable(offer, lines[j])}
    IN  o.tracked => MapThenSumSet(LAMBDA j : lines[j].milli, before) <= o.stock

Priced(offer, lines) == {i \in DOMAIN lines : Sellable(offer, lines[i]) /\ InStock(offer, lines, i)}
Subtotal(offer, lines, now) ==
    MapThenSumSet(LAMBDA i : LineSubtotal(UnitPrice(offer, lines, i, now), lines[i].milli),
                  Priced(offer, lines))

-----------------------------------------------------------------------------
(* The coupon: [active, starts, ends, least, max, perCustomer, bps, amount, cap, count], bps None
   for a fixed amount *)

PercentOf(subtotal, bps) == (subtotal * bps + 5000) \div 10000
CouponApplies(c, subtotal, uses, now) ==
    /\ c.active
    /\ c.starts = None \/ now >= c.starts
    /\ c.ends = None \/ now < c.ends
    /\ subtotal >= c.least
    /\ c.max = None \/ c.count < c.max
    /\ c.perCustomer = None \/ uses < c.perCustomer
CouponDiscount(c, subtotal, uses, now) ==
    LET percent == PercentOf(subtotal, c.bps)
        worth == IF c.bps = None THEN c.amount
                 ELSE IF c.cap = None THEN percent ELSE Lesser(percent, c.cap)
    IN  IF CouponApplies(c, subtotal, uses, now) THEN Lesser(worth, subtotal) ELSE 0

-----------------------------------------------------------------------------
(* Delivery *)

\* `match_zone`: the first active zone of the owner's order that covers the address, those of CEP
\* ranges before those of districts.  A zone is [active, byCep, covers, fee, least].
MatchZone(zones, address) ==
    LET covering(byCep) == {i \in DOMAIN zones : /\ zones[i].active /\ zones[i].byCep = byCep
                                                 /\ address \in zones[i].covers}
        first(S) == CHOOSE i \in S : \A j \in S : i <= j
    IN  IF covering(TRUE) # {} THEN first(covering(TRUE))
        ELSE IF covering(FALSE) # {} THEN first(covering(FALSE)) ELSE 0

\* `_shipping_problem`, of a quotation that left the server: [price, at, lines, to] or NoQuotation.
NoQuotation == [price |-> None, at |-> None, lines |-> << >>, to |-> "none"]
QuotationStands_Young(quotation, lines, address, now, ttl) ==     \* mutant: of whatever cart
    quotation # NoQuotation /\ now - quotation.at <= ttl
QuotationStands(quotation, lines, address, now, ttl) ==
    /\ quotation # NoQuotation
    /\ now - quotation.at <= ttl
    /\ quotation.lines = lines /\ quotation.to = address

\* `_shipping_fee`
ShippingFee(quotation, freeAbove, subtotal) ==
    IF freeAbove # None /\ subtotal >= freeAbove THEN 0 ELSE quotation.price

-----------------------------------------------------------------------------
(* The cart of a customer and its checkout *)

CONSTANTS Variants, Quantities,    \* milli, 0 takes a line out
          Offers,                  \* what the merchant may sell: functions on Variants
          Zones,                   \* what the merchant may set: sequences of zones
          Coupons,
          Addresses, Home, Freights,     \* what a carrier may ask
          FreeAbove, TTL,          \* of a quotation
          Requests, Keys,
          MaxVersion, MaxNow, MaxChanges   \* model bounds

VARIABLES shop,      \* offer, zones, coupon
          cart,      \* status, version, lines, coupon, type, address book entry, quotation
          place,     \* the postal code of the chosen address: it can be edited without the cart
          screen,    \* what the customer last saw of the cart
          now,
          keyRow,    \* per key: free, or answered with an order; and until when
          request,   \* per request: phase, key, what the customer reviewed, the answer
          orders,
          changes

checkoutVars == <<shop, cart, place, screen, now, keyRow, request, orders, changes>>
KeyTTL == 1
NoOrder == 0
Line(v, milli) == [variant |-> v, milli |-> milli, chosen |-> {}]
EmptyCart == [status |-> "active", version |-> 1, coupon |-> FALSE, type |-> "none",
              quotation |-> NoQuotation,
              lines |-> SetToSeq({Line(v, 0) : v \in Variants})]
NoScreen == [version |-> 0, lines |-> << >>, total |-> 0]

\* The lines of the cart in their order, for the pricing.
Lines(c) == SelectSeq(c.lines, LAMBDA l : l.milli > 0)
Uses == Cardinality({i \in DOMAIN orders : orders[i].discount > 0})

\* PricingService.quote
FulfillmentFee(s, c, to, subtotal) ==      \* None: it cannot be closed this way
    CASE c.type = "pickup" -> 0
      [] c.type = "delivery" ->
             LET z == MatchZone(s.zones, to)
             IN  IF z = 0 \/ subtotal < s.zones[z].least THEN None ELSE s.zones[z].fee
      [] c.type = "shipping" ->
             IF QuotationStands(c.quotation, Lines(c), to, now, TTL)
             THEN ShippingFee(c.quotation, FreeAbove, subtotal) ELSE None
      [] OTHER -> None
Quote(s, c, to) ==
    LET subtotal == Subtotal(s.offer, Lines(c), now)
        discount == IF c.coupon THEN CouponDiscount(s.coupon, subtotal, Uses, now) ELSE 0
        fee == FulfillmentFee(s, c, to, subtotal - discount)
    IN  [subtotal |-> subtotal, discount |-> discount, fee |-> fee,
         total |-> subtotal - discount + (IF fee = None THEN 0 ELSE fee),
         closes |-> /\ Lines(c) # << >> /\ fee # None
                    /\ Priced(s.offer, Lines(c)) = DOMAIN Lines(c)]

View(c) == [version |-> c.version, lines |-> Lines(c), total |-> Quote(shop, c, place).total]
Touched(c) == [c EXCEPT !.version = @ + 1]

-----------------------------------------------------------------------------
(* The cart *)

CartOpen == cart.status = "active" /\ cart.version < MaxVersion

\* Every write answers with the cart priced again.
Writes(c) ==
    /\ CartOpen
    /\ cart' = Touched(c)
    /\ screen' = View(Touched(c))

\* `add` refuses a new line with any problem; `set_quantity` a quantity or a stock that does not do.
Refused(c, i, isNew) ==
    LET o == shop.offer[Lines(c)[i].variant]
    IN  IF isNew THEN i \notin Priced(shop.offer, Lines(c))
        ELSE o.active /\ ~(QuantityOk(o, Lines(c)[i].milli) /\ InStock(shop.offer, Lines(c), i))
SetQuantity(i, milli) ==
    LET c == [cart EXCEPT !.lines[i].milli = milli]
        at == Len(SelectSeq(SubSeq(c.lines, 1, i), LAMBDA l : l.milli > 0))
    IN  /\ cart.lines[i].milli # milli
        /\ milli > 0 => ~Refused(c, at, cart.lines[i].milli = 0)
        /\ Writes(c)
        /\ UNCHANGED <<shop, place, now, keyRow, request, orders, changes>>

\* `set_fulfillment`, with an address, a place to pick up, or one of the quotations shown.
Choose(type, quotation) ==
    /\ Writes([cart EXCEPT !.type = type, !.quotation = quotation])
    /\ <<type, quotation>> # <<cart.type, cart.quotation>>
    /\ UNCHANGED <<shop, place, now, keyRow, request, orders, changes>>
QuoteFreight(price) ==
    Choose("shipping", [price |-> price, at |-> now, lines |-> Lines(cart), to |-> place])

\* `set_coupon` refuses a code that is worth nothing now; `clear_coupon`.
SetCoupon ==
    /\ IF cart.coupon THEN TRUE
       ELSE CouponDiscount(shop.coupon, Subtotal(shop.offer, Lines(cart), now), Uses, now) > 0
    /\ Writes([cart EXCEPT !.coupon = ~@])
    /\ UNCHANGED <<shop, place, now, keyRow, request, orders, changes>>

\* The address is edited in the address book: the cart does not know.
EditAddress(a) ==
    /\ changes < MaxChanges /\ changes' = changes + 1
    /\ a # place /\ place' = a
    /\ UNCHANGED <<shop, cart, screen, now, keyRow, request, orders>>

GetCart ==
    /\ cart.status = "active"
    /\ screen' = View(cart)
    /\ UNCHANGED <<shop, cart, place, now, keyRow, request, orders, changes>>

\* The panel.
MerchantChanges ==
    /\ changes < MaxChanges /\ changes' = changes + 1
    /\ \/ \E o \in Offers : shop' = [shop EXCEPT !.offer = o]
       \/ \E z \in Zones : shop' = [shop EXCEPT !.zones = z]
       \/ \E c \in Coupons : shop' = [shop EXCEPT !.coupon = [c EXCEPT !.count = shop.coupon.count]]
    /\ UNCHANGED <<cart, place, screen, now, keyRow, request, orders>>

Tick == /\ now < MaxNow /\ now' = now + 1
        /\ UNCHANGED <<shop, cart, place, screen, keyRow, request, orders, changes>>

-----------------------------------------------------------------------------
(* Closing *)

\* The browser sends what is on the screen; a retry sends the same body again.
Sends(r, k) ==
    /\ request[r].phase = "idle" /\ screen # NoScreen
    /\ \/ /\ \A q \in Requests : request[q].key # k
          /\ request' = [request EXCEPT ![r] = [phase |-> "sent", key |-> k, seen |-> screen,
                                                row |-> "unread", answer |-> "none"]]
       \/ \E q \in Requests :
              /\ q # r /\ request[q].key = k
              /\ request' = [request EXCEPT ![r] = [request[q] EXCEPT !.phase = "sent",
                                                        !.row = "unread", !.answer = "none"]]
    /\ UNCHANGED <<shop, cart, place, screen, now, keyRow, orders, changes>>

\* The wrapper reads the row of the key, without a lock; a stored answer of a live row is replayed.
Live(k) == keyRow[k].order # NoOrder /\ now < keyRow[k].until
ReadsKey(r) ==
    LET k == request[r].key
    IN  /\ request[r].phase = "sent"
        /\ request' = [request EXCEPT
               ![r].phase = IF Live(k) THEN "done" ELSE "read",
               ![r].row = IF keyRow[k].order = NoOrder THEN "absent" ELSE "expired",
               ![r].answer = IF Live(k) THEN "order" ELSE "none"]
        /\ UNCHANGED <<shop, cart, place, screen, now, keyRow, orders, changes>>

\* An insert conflicts with a row committed since (`idempotency_in_progress`); an update of the
\* expired row goes on over whatever it holds now.  Both wait for another holder.
TakesKey(r) ==
    LET k == request[r].key
    IN  /\ request[r].phase = "read"
        /\ \A q \in Requests : request[q].key = k => request[q].phase # "holds"
        /\ IF request[r].row = "absent" /\ keyRow[k].order # NoOrder
           THEN request' = [request EXCEPT ![r].phase = "done", ![r].answer = "in_progress"]
           ELSE request' = [request EXCEPT ![r].phase = "holds"]
        /\ UNCHANGED <<shop, cart, place, screen, now, keyRow, orders, changes>>

\* OrderService.place under the lock of the cart, and the commit.
SameVersion_Total(r) == TRUE                       \* mutant: only the total is compared
SameVersion(r) == cart.version = request[r].seen.version
Replayed_Never(r) == NoOrder                       \* mutant: only the wrapper knows the key
Replayed(r) ==
    LET mine == {i \in DOMAIN orders : orders[i].key = request[r].key}
    IN  IF mine = {} THEN NoOrder ELSE CHOOSE i \in mine : TRUE
Refuses(r, why) ==
    /\ request' = [request EXCEPT ![r].phase = "done", ![r].answer = why]
    /\ UNCHANGED <<shop, cart, keyRow, orders>>
Answers(r, i) ==
    /\ request' = [request EXCEPT ![r].phase = "done", ![r].answer = "order"]
    /\ keyRow' = [keyRow EXCEPT ![request[r].key] = [order |-> i, until |-> now + KeyTTL]]

Place(r) ==
    LET q == Quote(shop, cart, place)
    IN  /\ request[r].phase = "holds"
        /\ \/ Replayed(r) # NoOrder /\ Answers(r, Replayed(r)) /\ UNCHANGED <<shop, cart, orders>>
           \/ /\ Replayed(r) = NoOrder
              /\ \/ cart.status # "active" /\ Refuses(r, "converted")
                 \/ cart.status = "active" /\ ~SameVersion(r) /\ Refuses(r, "changed")
                 \/ /\ cart.status = "active" /\ SameVersion(r)
                    /\ \/ (~q.closes \/ q.total # request[r].seen.total) /\ Refuses(r, "problems")
                       \/ /\ q.closes /\ q.total = request[r].seen.total
                          /\ orders' = Append(orders,
                                 [key |-> request[r].key, lines |-> Lines(cart), total |-> q.total,
                                  discount |-> q.discount, fee |-> q.fee, type |-> cart.type,
                                  to |-> place, at |-> now, quotation |-> cart.quotation,
                                  seen |-> request[r].seen])
                          /\ cart' = [cart EXCEPT !.status = "converted"]
                          /\ shop' = [shop EXCEPT !.coupon.count = @ + (IF q.discount > 0 THEN 1 ELSE 0)]
                          /\ Answers(r, Len(orders) + 1)
        /\ UNCHANGED <<place, screen, now, changes>>

\* The connection or the process dies: the transaction is rolled back.
Loses(r) ==
    /\ request[r].phase = "holds"
    /\ request' = [request EXCEPT ![r].phase = "done", ![r].answer = "lost"]
    /\ UNCHANGED <<shop, cart, place, screen, now, keyRow, orders, changes>>

-----------------------------------------------------------------------------
CheckoutInit ==
    /\ \E o \in Offers, z \in Zones, c \in Coupons : shop = [offer |-> o, zones |-> z, coupon |-> c]
    /\ cart = EmptyCart /\ place = Home
    /\ screen = NoScreen /\ now = 0 /\ orders = << >> /\ changes = 0
    /\ keyRow = [k \in Keys |-> [order |-> NoOrder, until |-> 0]]
    /\ request = [r \in Requests |-> [phase |-> "idle", key |-> "none", seen |-> NoScreen,
                                      row |-> "unread", answer |-> "none"]]

CheckoutNext ==
    \/ \E i \in DOMAIN cart.lines, m \in Quantities : SetQuantity(i, m)
    \/ \E t \in {"pickup", "delivery"} : Choose(t, NoQuotation)
    \/ \E p \in Freights : QuoteFreight(p)
    \/ SetCoupon \/ GetCart \/ MerchantChanges \/ Tick
    \/ \E a \in Addresses : EditAddress(a)
    \/ \E r \in Requests : \/ \E k \in Keys : Sends(r, k)
                           \/ ReadsKey(r) \/ TakesKey(r) \/ Place(r) \/ Loses(r)

CheckoutSpec == CheckoutInit /\ [][CheckoutNext]_checkoutVars

-----------------------------------------------------------------------------
\* Whatever was edited in other tabs or in the panel between the review and the click, an order has
\* the lines and the total the customer was looking at.
OrderIsReviewed ==
    \A i \in DOMAIN orders : LET o == orders[i]
                             IN  o.lines = o.seen.lines /\ o.total = o.seen.total

\* The freight of an order is one that the server quoted for exactly these items, to the postal
\* code the order goes to, not long ago; or free.
FreightIsQuoted ==
    \A i \in DOMAIN orders :
        LET o == orders[i]
        IN  o.type = "shipping" =>
                /\ o.quotation.lines = o.lines /\ o.quotation.to = o.to
                /\ o.at - o.quotation.at <= TTL
                /\ o.fee \in {0, o.quotation.price}

\* A retry of a checkout that succeeded is never told that the cart is gone: it gets its order,
\* also after the answer stored for its key expired.
RetryFindsItsOrder ==
    \A r \in Requests : request[r].answer = "converted" =>
        \A i \in DOMAIN orders : orders[i].key # request[r].key
=============================================================================
