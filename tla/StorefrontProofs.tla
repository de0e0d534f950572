---------------------------- MODULE StorefrontProofs ----------------------------
(***************************************************************************)
(* Proofs about what is sold and how it is sent.  For every shop, cart,    *)
(* set of requests and keys, and whatever is edited, and however long it   *)
(* takes, between a review and a click: an order is what was reviewed, its *)
(* freight was quoted for it, and a retry finds it.  And for any number of *)
(* shipments and of lost answers of the courier's platform, a label is     *)
(* paid once.                                                              *)
(***************************************************************************)
EXTENDS MCStorefront, TLAPS

\* The checkout of the storefront is the checkout, its labels are the labels.
LEMMA StorefrontParts ==
    /\ StorefrontInit => CheckoutInit /\ L!LabelsInit
    /\ [StorefrontNext]_storefrontVars => [CheckoutNext]_checkoutVars /\ [L!LabelsNext]_labelVars
<1>1. StorefrontInit => CheckoutInit /\ L!LabelsInit
  BY DEF StorefrontInit
<1>2. StorefrontNext => [CheckoutNext]_checkoutVars /\ [L!LabelsNext]_labelVars
  BY DEF StorefrontNext, Selling, Sending, shopVars, shippingVars
<1>3. UNCHANGED storefrontVars => UNCHANGED checkoutVars /\ UNCHANGED labelVars
  BY DEF storefrontVars, shopVars, shippingVars
<1>. QED BY <1>1, <1>2, <1>3


-----------------------------------------------------------------------------
(* Shapes: the fields of the records, whatever is in them *)

IsSeq(s) == \E S : s \in Seq(S)

IsCart(c) ==
    /\ c = [field \in {"status", "version", "lines", "coupon", "type", "quotation"} |-> c[field]]
    /\ c.version \in Nat
    /\ c.status \in {"active", "converted"}

IsRequest(q) ==
    q = [field \in {"phase", "key", "seen", "row", "answer"} |-> q[field]]

-----------------------------------------------------------------------------
(* The inductive invariant of the checkout *)

\* Who looks at version n of the cart c looks at its lines, if c is still at n.
Fresh(seen, c) ==
    /\ seen.version \in Nat /\ seen.version <= c.version
    /\ seen.version = c.version => seen.lines = Lines(c)

ScreensAreFresh ==
    /\ Fresh(screen, cart)
    /\ \A r \in Requests : Fresh(request[r].seen, cart)

\* What was converted stays so, and was converted by a request with another key.
ConvertedForAnother ==
    \A r \in Requests : request[r].answer = "converted" =>
        /\ cart.status = "converted"
        /\ \A i \in DOMAIN orders : orders[i].key # request[r].key

\* A cart gives one order.
OneOrder ==
    /\ cart.status = "active" => orders = << >>
    /\ Len(orders) <= 1

Shapes ==
    /\ IsCart(cart)
    /\ request = [r \in Requests |-> request[r]]
    /\ \A r \in Requests : IsRequest(request[r])
    /\ IsSeq(orders)

CInv ==
    /\ Shapes /\ ScreensAreFresh /\ ConvertedForAnother /\ OneOrder
    /\ OrderIsReviewed /\ FreightIsQuoted

-----------------------------------------------------------------------------
LEMMA AppendIs ==
    ASSUME NEW s, IsSeq(s), NEW x
    PROVE  LET t == Append(s, x)
           IN  /\ IsSeq(t) /\ Len(s) \in Nat /\ Len(t) = Len(s) + 1
               /\ DOMAIN t = DOMAIN s \cup {Len(s) + 1}
               /\ t[Len(s) + 1] = x
               /\ \A i \in DOMAIN s : t[i] = s[i] /\ i # Len(s) + 1
<1>1. PICK S : s \in Seq(S)
  BY DEF IsSeq
<1> DEFINE T == S \cup {x}
<1>2. s \in Seq(T) /\ x \in T
  BY <1>1
<1> HIDE DEF T
<1> QED
  BY <1>2 DEF IsSeq

\* The lines of a cart are its lines, whatever else is in it.
LEMMA SameLines ==
    ASSUME NEW c, NEW e, c.lines = e.lines
    PROVE  Lines(c) = Lines(e)
BY DEF Lines

LEMMA TouchedIs ==
    ASSUME NEW c, IsCart(c)
    PROVE  /\ IsCart(Touched(c)) /\ Touched(c).version = c.version + 1
           /\ Touched(c).status = c.status
BY DEF IsCart, Touched

-----------------------------------------------------------------------------
(* The steps *)

\* A write gives the cart a new version, which nobody has seen but who wrote.
LEMMA WriteStep ==
    ASSUME CInv, NEW c, IsCart(c), c.version = cart.version, c.status = cart.status, Writes(c),
           UNCHANGED <<request, orders>>
    PROVE  CInv'
<1>1. /\ IsCart(cart') /\ cart'.version = cart.version + 1 /\ cart'.status = cart.status
      /\ cart.version \in Nat
  BY TouchedIs DEF Writes, IsCart, CInv, Shapes
<1>2. Shapes'
  BY <1>1 DEF CInv, Shapes
<1>3. screen'.version = cart'.version /\ screen'.lines = Lines(cart')
  BY DEF Writes, View
<1>4. ScreensAreFresh'
  <2>1. \A r \in Requests : Fresh(request[r].seen, cart)
    BY DEF CInv, ScreensAreFresh
  <2>2. \A r \in Requests : Fresh(request[r].seen, cart')
    BY <1>1, <2>1 DEF Fresh
  <2> QED
    BY <1>1, <1>3, <2>2 DEF ScreensAreFresh, Fresh
<1>5. ConvertedForAnother' /\ OneOrder'
  BY <1>1 DEF CInv, ConvertedForAnother, OneOrder
<1>6. OrderIsReviewed' /\ FreightIsQuoted'
  BY DEF CInv, OrderIsReviewed, FreightIsQuoted
<1> QED
  BY <1>2, <1>4, <1>5, <1>6 DEF CInv

LEMMA SetQuantityStep ==
    ASSUME CInv, NEW i, NEW milli, SetQuantity(i, milli)
    PROVE  CInv'
<1> DEFINE c == [cart EXCEPT !.lines[i].milli = milli]
<1>1. IsCart(c) /\ c.version = cart.version /\ c.status = cart.status
  BY DEF CInv, Shapes, IsCart
<1>2. Writes(c) /\ UNCHANGED <<request, orders>>
  BY DEF SetQuantity
<1> HIDE DEF c
<1> QED
  BY <1>1, <1>2, WriteStep

LEMMA ChooseStep ==
    ASSUME CInv, NEW type, NEW quotation, Choose(type, quotation)
    PROVE  CInv'
<1> DEFINE c == [cart EXCEPT !.type = type, !.quotation = quotation]
<1>1. IsCart(c) /\ c.version = cart.version /\ c.status = cart.status
  BY DEF CInv, Shapes, IsCart
<1>2. Writes(c) /\ UNCHANGED <<request, orders>>
  BY DEF Choose
<1> HIDE DEF c
<1> QED
  BY <1>1, <1>2, WriteStep

LEMMA CouponIs ==
    ASSUME NEW c, IsCart(c), NEW used
    PROVE  LET e == [c EXCEPT !.coupon = used]
           IN  IsCart(e) /\ e.version = c.version /\ e.status = c.status
BY DEF IsCart

LEMMA SetCouponStep ==
    ASSUME CInv, SetCoupon
    PROVE  CInv'
<1> DEFINE c == [cart EXCEPT !.coupon = ~@]
<1>1. IsCart(c) /\ c.version = cart.version /\ c.status = cart.status
  BY CouponIs DEF CInv, Shapes
<1>2. Writes(c) /\ UNCHANGED <<request, orders>>
  BY DEF SetCoupon
<1> HIDE DEF c
<1> QED
  BY <1>1, <1>2, WriteStep

\* What is seen, edited or set aside from the cart, the requests and the orders.
LEMMA AsideStep ==
    ASSUME CInv, UNCHANGED <<cart, request, orders>>, screen' = screen \/ screen' = View(cart)
    PROVE  CInv'
<1>1. Shapes' /\ ConvertedForAnother' /\ OneOrder'
  BY DEF CInv, Shapes, ConvertedForAnother, OneOrder
<1>2. ScreensAreFresh'
  <2>1. Fresh(View(cart), cart)
    BY DEF View, Fresh, CInv, Shapes, IsCart
  <2> QED
    BY <2>1 DEF CInv, ScreensAreFresh
<1>3. OrderIsReviewed' /\ FreightIsQuoted'
  BY DEF CInv, OrderIsReviewed, FreightIsQuoted
<1> QED
  BY <1>1, <1>2, <1>3 DEF CInv

\* What a request may become without looking again.
LEMMA AnsweredIs ==
    ASSUME NEW q, IsRequest(q), NEW answer
    PROVE  LET n == [q EXCEPT !.phase = "done", !.answer = answer]
           IN  IsRequest(n) /\ n.seen = q.seen /\ n.key = q.key /\ n.answer = answer
BY DEF IsRequest

\* A request goes on.
LEMMA RequestStep ==
    ASSUME CInv, NEW r \in Requests, NEW q, IsRequest(q), Fresh(q.seen, cart),
           q.answer = "converted" => /\ cart.status = "converted"
                                     /\ \A i \in DOMAIN orders : orders[i].key # q.key,
           request' = [request EXCEPT ![r] = q], UNCHANGED <<cart, screen, orders>>
    PROVE  CInv'
<1>1. /\ request' = [x \in Requests |-> request'[x]]
      /\ request'[r] = q /\ \A x \in Requests \ {r} : request'[x] = request[x]
  BY DEF CInv, Shapes
<1>2. Shapes'
  BY <1>1 DEF CInv, Shapes
<1>3. ScreensAreFresh'
  BY <1>1 DEF CInv, ScreensAreFresh
<1>4. ConvertedForAnother' /\ OneOrder'
  BY <1>1 DEF CInv, ConvertedForAnother, OneOrder
<1>5. OrderIsReviewed' /\ FreightIsQuoted'
  BY DEF CInv, OrderIsReviewed, FreightIsQuoted
<1> QED
  BY <1>2, <1>3, <1>4, <1>5 DEF CInv

LEMMA SendsStep ==
    ASSUME CInv, NEW r \in Requests, NEW k, Sends(r, k)
    PROVE  CInv'
<1> DEFINE new == [phase |-> "sent", key |-> k, seen |-> screen, row |-> "unread", answer |-> "none"]
           again(x) == [request[x] EXCEPT !.phase = "sent", !.row = "unread", !.answer = "none"]
<1>1. IsRequest(new) /\ Fresh(new.seen, cart) /\ new.answer = "none"
  BY DEF IsRequest, CInv, ScreensAreFresh
<1>2. \A x \in Requests : IsRequest(again(x)) /\ Fresh(again(x).seen, cart) /\ again(x).answer = "none"
  BY DEF IsRequest, CInv, Shapes, ScreensAreFresh
<1>3. \/ request' = [request EXCEPT ![r] = new]
      \/ \E x \in Requests : request' = [request EXCEPT ![r] = again(x)]
  BY DEF Sends
<1>4. UNCHANGED <<cart, screen, orders>>
  BY DEF Sends
<1> HIDE DEF new, again
<1> QED
  BY <1>1, <1>2, <1>3, <1>4, RequestStep

\* The wrapper's reading of the key, whatever it finds.
LEMMA LooksStep ==
    ASSUME CInv, NEW r \in Requests, NEW phase, NEW row, NEW answer, answer # "converted",
           request' = [request EXCEPT ![r].phase = phase, ![r].row = row, ![r].answer = answer],
           UNCHANGED <<cart, screen, orders>>
    PROVE  CInv'
<1> DEFINE new == [request[r] EXCEPT !.phase = phase, !.row = row, !.answer = answer]
<1>1. request' = [request EXCEPT ![r] = new]
  BY DEF CInv, Shapes
<1>2. IsRequest(request[r]) /\ Fresh(request[r].seen, cart)
  BY DEF CInv, Shapes, ScreensAreFresh
<1>3. IsRequest(new) /\ new.seen = request[r].seen /\ new.answer = answer
  BY <1>2 DEF IsRequest
<1> HIDE DEF new
<1> QED
  BY <1>1, <1>2, <1>3, RequestStep

LEMMA ReadsKeyStep ==
    ASSUME CInv, NEW r \in Requests, ReadsKey(r)
    PROVE  CInv'
<1> DEFINE k == request[r].key
           phase == IF Live(k) THEN "done" ELSE "read"
           row == IF keyRow[k].order = NoOrder THEN "absent" ELSE "expired"
           answer == IF Live(k) THEN "order" ELSE "none"
<1>1. /\ request' = [request EXCEPT ![r].phase = phase, ![r].row = row, ![r].answer = answer]
      /\ UNCHANGED <<cart, screen, orders>>
  BY DEF ReadsKey
<1>2. answer # "converted"
  OBVIOUS
<1> HIDE DEF phase, row, answer
<1> QED
  BY <1>1, <1>2, LooksStep

\* An answer to a request, other than that its cart is gone.
LEMMA DoneStep ==
    ASSUME CInv, NEW r \in Requests, NEW why, why # "converted",
           request' = [request EXCEPT ![r].phase = "done", ![r].answer = why],
           UNCHANGED <<cart, screen, orders>>
    PROVE  CInv'
<1> DEFINE new == [request[r] EXCEPT !.phase = "done", !.answer = why]
<1>1. request' = [request EXCEPT ![r] = new]
  BY DEF CInv, Shapes
<1>2. IsRequest(request[r]) /\ Fresh(request[r].seen, cart)
  BY DEF CInv, Shapes, ScreensAreFresh
<1>3. IsRequest(new) /\ new.seen = request[r].seen /\ new.answer = why
  BY <1>2, AnsweredIs
<1> HIDE DEF new
<1> QED
  BY <1>1, <1>2, <1>3, RequestStep

LEMMA TakesKeyStep ==
    ASSUME CInv, NEW r \in Requests, TakesKey(r)
    PROVE  CInv'
<1> DEFINE held == [request[r] EXCEPT !.phase = "holds"]
<1>1. CASE request' = [request EXCEPT ![r].phase = "done", ![r].answer = "in_progress"]
  BY <1>1, DoneStep DEF TakesKey
<1>2. CASE request' = [request EXCEPT ![r].phase = "holds"]
  <2>1. request' = [request EXCEPT ![r] = held] /\ UNCHANGED <<cart, screen, orders>>
    BY <1>2 DEF TakesKey, CInv, Shapes
  <2>2. IsRequest(request[r]) /\ Fresh(request[r].seen, cart)
    BY DEF CInv, Shapes, ScreensAreFresh
  <2>3. /\ IsRequest(held) /\ held.seen = request[r].seen /\ held.answer = request[r].answer
        /\ held.key = request[r].key
    BY <2>2 DEF IsRequest
  <2> HIDE DEF held
  <2>4. held.answer = "converted" => /\ cart.status = "converted"
                                     /\ \A i \in DOMAIN orders : orders[i].key # held.key
    BY <2>3 DEF CInv, ConvertedForAnother
  <2> QED
    BY <2>1, <2>2, <2>3, <2>4, RequestStep
<1> QED
  BY <1>1, <1>2 DEF TakesKey

LEMMA LosesStep ==
    ASSUME CInv, NEW r \in Requests, Loses(r)
    PROVE  CInv'
BY DoneStep DEF Loses

\* A cart that closes with freight has a quotation that stands.
LEMMA FreightOfQuote ==
    ASSUME NEW s, NEW c, NEW to, Quote(s, c, to).closes, c.type = "shipping"
    PROVE  /\ c.quotation.lines = Lines(c) /\ c.quotation.to = to
           /\ now - c.quotation.at <= TTL
           /\ Quote(s, c, to).fee \in {0, c.quotation.price}
<1> DEFINE subtotal == Subtotal(s.offer, Lines(c), now)
           discount == IF c.coupon THEN CouponDiscount(s.coupon, subtotal, Uses, now) ELSE 0
           fee == FulfillmentFee(s, c, to, subtotal - discount)
<1>1. Quote(s, c, to).fee = fee /\ fee # None
  BY DEF Quote
<1>2. fee = IF QuotationStands(c.quotation, Lines(c), to, now, TTL)
            THEN ShippingFee(c.quotation, FreeAbove, subtotal - discount) ELSE None
  BY DEF FulfillmentFee
<1> HIDE DEF fee, discount, subtotal
<1>3. QuotationStands(c.quotation, Lines(c), to, now, TTL)
  BY <1>1, <1>2
<1>4. fee \in {0, c.quotation.price}
  BY <1>2, <1>3 DEF ShippingFee
<1> QED
  BY <1>1, <1>3, <1>4 DEF QuotationStands

\* The branch of `place` that creates the order.
LEMMA PlacedStep ==
    ASSUME CInv, NEW r \in Requests, cart.status = "active", SameVersion(r),
           Quote(shop, cart, place).closes, Quote(shop, cart, place).total = request[r].seen.total,
           orders' = Append(orders,
               [key |-> request[r].key, lines |-> Lines(cart), total |-> Quote(shop, cart, place).total,
                discount |-> Quote(shop, cart, place).discount, fee |-> Quote(shop, cart, place).fee,
                type |-> cart.type, to |-> place, at |-> now, quotation |-> cart.quotation,
                seen |-> request[r].seen]),
           cart' = [cart EXCEPT !.status = "converted"],
           request' = [request EXCEPT ![r].phase = "done", ![r].answer = "order"],
           UNCHANGED screen
    PROVE  CInv'
<1> DEFINE o == [key |-> request[r].key, lines |-> Lines(cart), total |-> Quote(shop, cart, place).total,
                 discount |-> Quote(shop, cart, place).discount, fee |-> Quote(shop, cart, place).fee,
                 type |-> cart.type, to |-> place, at |-> now, quotation |-> cart.quotation,
                 seen |-> request[r].seen]
           new == [request[r] EXCEPT !.phase = "done", !.answer = "order"]
<1>1. orders = << >> /\ IsSeq(orders) /\ IsCart(cart) /\ IsRequest(request[r])
  BY DEF CInv, Shapes, OneOrder
<1>2. /\ o.lines = o.seen.lines /\ o.total = o.seen.total
      /\ o.type = "shipping" => /\ o.quotation.lines = o.lines /\ o.quotation.to = o.to
                                /\ o.at - o.quotation.at <= TTL
                                /\ o.fee \in {0, o.quotation.price}
  <2>1. request[r].seen.lines = Lines(cart)
    BY DEF CInv, ScreensAreFresh, Fresh, SameVersion
  <2>2. cart.type = "shipping" => /\ cart.quotation.lines = Lines(cart) /\ cart.quotation.to = place
                                  /\ now - cart.quotation.at <= TTL
                                  /\ Quote(shop, cart, place).fee \in {0, cart.quotation.price}
    BY FreightOfQuote
  <2> QED
    BY <2>1, <2>2
<1>3. orders' = Append(orders, o)
  OBVIOUS
<1>4. request' = [request EXCEPT ![r] = new]
  BY DEF CInv, Shapes
<1> HIDE DEF o
<1>5. IsSeq(orders') /\ Len(orders') = 1 /\ DOMAIN orders' = {1} /\ orders'[1] = o
  <2> DEFINE t == Append(orders, o)
  <2>1. /\ IsSeq(t) /\ Len(t) = Len(orders) + 1
        /\ DOMAIN t = DOMAIN orders \cup {Len(orders) + 1}
        /\ t[Len(orders) + 1] = o
    BY <1>1, AppendIs
  <2>2. Len(orders) = 0 /\ DOMAIN orders = {}
    BY <1>1
  <2> HIDE DEF t
  <2>3. IsSeq(t) /\ Len(t) = 1 /\ DOMAIN t = {1} /\ t[1] = o
    BY <2>1, <2>2
  <2> QED
    BY <1>3, <2>3 DEF t
<1>6. IsCart(cart') /\ cart'.status = "converted" /\ cart'.version = cart.version /\ cart'.lines = cart.lines
  BY <1>1 DEF IsCart
<1>7. Lines(cart') = Lines(cart)
  BY <1>6, SameLines
<1>8. IsRequest(new) /\ new.seen = request[r].seen /\ new.answer = "order"
  BY <1>1, AnsweredIs
<1> HIDE DEF new
<1>9. /\ request' = [x \in Requests |-> request'[x]]
      /\ request'[r] = new /\ \A x \in Requests \ {r} : request'[x] = request[x]
  BY <1>4 DEF CInv, Shapes
<1>10. Shapes'
  BY <1>5, <1>6, <1>8, <1>9 DEF CInv, Shapes
<1>11. ScreensAreFresh'
  <2>1. Fresh(screen, cart) /\ \A x \in Requests : Fresh(request[x].seen, cart)
    BY DEF CInv, ScreensAreFresh
  <2>2. \A x \in Requests : request'[x].seen = request[x].seen
    BY <1>8, <1>9
  <2>3. \A seen : Fresh(seen, cart) => Fresh(seen, cart')
    BY <1>6, <1>7 DEF Fresh
  <2> QED
    BY <2>1, <2>2, <2>3 DEF ScreensAreFresh
<1>12. ConvertedForAnother'
  BY <1>8, <1>9 DEF CInv, ConvertedForAnother
<1>13. OneOrder'
  BY <1>5, <1>6 DEF OneOrder
<1>14. OrderIsReviewed' /\ FreightIsQuoted'
  BY <1>2, <1>5 DEF OrderIsReviewed, FreightIsQuoted
<1> QED
  BY <1>10, <1>11, <1>12, <1>13, <1>14 DEF CInv

\* A request that finds the cart gone: no order has its key, or it would have been replayed.
LEMMA ConvertedStep ==
    ASSUME CInv, NEW r \in Requests, Replayed(r) = NoOrder, cart.status # "active",
           request' = [request EXCEPT ![r].phase = "done", ![r].answer = "converted"],
           UNCHANGED <<cart, screen, orders>>
    PROVE  CInv'
<1> DEFINE new == [request[r] EXCEPT !.phase = "done", !.answer = "converted"]
<1>1. request' = [request EXCEPT ![r] = new]
  BY DEF CInv, Shapes
<1>2. IsRequest(request[r]) /\ Fresh(request[r].seen, cart) /\ cart.status = "converted"
  BY DEF CInv, Shapes, ScreensAreFresh, IsCart
<1>3. IsRequest(new) /\ new.seen = request[r].seen /\ new.key = request[r].key
  BY <1>2, AnsweredIs
<1>4. \A i \in DOMAIN orders : orders[i].key # request[r].key
  <2> DEFINE mine == {i \in DOMAIN orders : orders[i].key = request[r].key}
  <2>1. CASE mine # {}
    <3>1. (CHOOSE i \in mine : TRUE) \in mine
      BY <2>1
    <3>2. Replayed(r) \in mine
      BY <2>1, <3>1 DEF Replayed
    <3>3. PICK S : orders \in Seq(S)
      BY DEF CInv, Shapes, IsSeq
    <3> QED
      BY <3>2, <3>3 DEF NoOrder
  <2> QED
    BY <2>1
<1> HIDE DEF new
<1>5. /\ IsRequest(new) /\ Fresh(new.seen, cart)
      /\ new.answer = "converted" => /\ cart.status = "converted"
                                     /\ \A i \in DOMAIN orders : orders[i].key # new.key
  BY <1>2, <1>3, <1>4
<1> QED
  BY <1>1, <1>5, RequestStep

LEMMA PlaceStep ==
    ASSUME CInv, NEW r \in Requests, Place(r)
    PROVE  CInv'
<1>1. UNCHANGED screen
  BY DEF Place
<1>2. CASE Replayed(r) # NoOrder /\ Answers(r, Replayed(r)) /\ UNCHANGED <<shop, cart, orders>>
  BY <1>1, <1>2, DoneStep DEF Answers
<1>3. CASE Replayed(r) = NoOrder /\ cart.status # "active" /\ Refuses(r, "converted")
  BY <1>1, <1>3, ConvertedStep DEF Refuses
<1>4. CASE Refuses(r, "changed") \/ Refuses(r, "problems")
  BY <1>1, <1>4, DoneStep DEF Refuses
<1>5. CASE /\ cart.status = "active" /\ SameVersion(r)
           /\ Quote(shop, cart, place).closes
           /\ Quote(shop, cart, place).total = request[r].seen.total
           /\ orders' = Append(orders,
                  [key |-> request[r].key, lines |-> Lines(cart), total |-> Quote(shop, cart, place).total,
                   discount |-> Quote(shop, cart, place).discount, fee |-> Quote(shop, cart, place).fee,
                   type |-> cart.type, to |-> place, at |-> now, quotation |-> cart.quotation,
                   seen |-> request[r].seen])
           /\ cart' = [cart EXCEPT !.status = "converted"]
           /\ Answers(r, Len(orders) + 1)
  BY <1>1, <1>5, PlacedStep DEF Answers
<1> QED
  BY <1>2, <1>3, <1>4, <1>5, Zenon DEF Place

-----------------------------------------------------------------------------
(* The invariant *)

LEMMA CInitially == CheckoutInit => CInv
<1> SUFFICES ASSUME CheckoutInit PROVE CInv
  OBVIOUS
<1>1. /\ cart = EmptyCart /\ screen = NoScreen /\ orders = << >>
      /\ \A r \in Requests : /\ request[r].seen = NoScreen /\ request[r].answer = "none"
                             /\ IsRequest(request[r])
  BY DEF CheckoutInit, IsRequest
<1>2. IsCart(cart) /\ cart.status = "active" /\ cart.version = 1
  BY <1>1 DEF EmptyCart, IsCart
<1>3. IsSeq(orders) /\ Len(orders) = 0 /\ DOMAIN orders = {}
  <2>1. << >> \in Seq({})
    OBVIOUS
  <2> QED
    BY <1>1, <2>1 DEF IsSeq
<1>4. Shapes
  BY <1>1, <1>2, <1>3 DEF Shapes, CheckoutInit
<1>5. ScreensAreFresh
  BY <1>1, <1>2 DEF ScreensAreFresh, Fresh, NoScreen
<1>6. ConvertedForAnother /\ OneOrder /\ OrderIsReviewed /\ FreightIsQuoted
  BY <1>1, <1>3 DEF ConvertedForAnother, OneOrder, OrderIsReviewed, FreightIsQuoted
<1> QED
  BY <1>4, <1>5, <1>6 DEF CInv

LEMMA CStep ==
    ASSUME CInv, [CheckoutNext]_checkoutVars
    PROVE  CInv'
<1>1. ASSUME NEW i, NEW m, SetQuantity(i, m)
      PROVE  CInv'
  BY <1>1, SetQuantityStep
<1>2. ASSUME NEW t, Choose(t, NoQuotation)
      PROVE  CInv'
  BY <1>2, ChooseStep
<1>3. ASSUME NEW p, QuoteFreight(p)
      PROVE  CInv'
  BY <1>3, ChooseStep DEF QuoteFreight
<1>4. CASE SetCoupon
  BY <1>4, SetCouponStep
<1>5. ASSUME GetCart \/ MerchantChanges \/ Tick \/ (\E a \in Addresses : EditAddress(a))
      PROVE  CInv'
  BY <1>5, AsideStep DEF GetCart, MerchantChanges, Tick, EditAddress
<1>6. ASSUME NEW r \in Requests, \E k \in Keys : Sends(r, k)
      PROVE  CInv'
  BY <1>6, SendsStep
<1>7. ASSUME NEW r \in Requests, ReadsKey(r) \/ TakesKey(r) \/ Place(r) \/ Loses(r)
      PROVE  CInv'
  BY <1>7, ReadsKeyStep, TakesKeyStep, PlaceStep, LosesStep
<1>8. CASE UNCHANGED checkoutVars
  BY <1>8, AsideStep DEF checkoutVars
<1> QED
  BY <1>1, <1>2, <1>3, <1>4, <1>5, <1>6, <1>7, <1>8 DEF CheckoutNext

LEMMA CInvariance == CheckoutSpec => []CInv
<1> QED
  BY CInitially, CStep, PTL DEF CheckoutSpec

-----------------------------------------------------------------------------
(* What it says of the checkout *)

\* Whatever is edited between the review and the click (the lines, the address, the shop's
\* prices and coupon), `place` makes an order of the lines and the total that were reviewed, or
\* none.
THEOREM OrderReviewed == CheckoutSpec => []OrderIsReviewed
<1>1. CInv => OrderIsReviewed
  BY DEF CInv
<1> QED
  BY <1>1, CInvariance, PTL

\* An order pays the freight that was quoted for its own items and its own postal code, and not
\* an old one (`_shipping_problem`, `_shipping_fee`).
THEOREM FreightQuoted == CheckoutSpec => []FreightIsQuoted
<1>1. CInv => FreightIsQuoted
  BY DEF CInv
<1> QED
  BY <1>1, CInvariance, PTL

\* Whoever is told that the cart is gone has no order under the key of the request: a retry of
\* a checkout that succeeded finds its order, for any number of keys and requests, and also when
\* the stored answer expired.
THEOREM RetryFinds == CheckoutSpec => []RetryFindsItsOrder
<1>1. CInv => RetryFindsItsOrder
  BY DEF CInv, ConvertedForAnother, RetryFindsItsOrder
<1> QED
  BY <1>1, CInvariance, PTL

\* However many requests close a cart, and whatever their keys, it becomes one order at most.
THEOREM CartIsSoldOnce == CheckoutSpec => [](Len(orders) <= 1)
<1>1. CInv => Len(orders) <= 1
  BY DEF CInv, OneOrder
<1> QED
  BY <1>1, CInvariance, PTL

-----------------------------------------------------------------------------
(* The labels of Frenet, for every number of shipments and of lost answers.  A request that goes *)
(* on has                                                                                       *)
(* nothing paid but its own shipment, and nothing at all until it pays or once it knows that    *)
(* the payment was not taken.                                                                   *)

States == {"created", "paid", "deleted", "cancelled"}
Unpaid == {"quote", "create", "pay", "discard refused", "discard no balance"}
Identified == {"pay", "confirm", "label", "discard refused", "discard no balance"}
Desks == [step : Unpaid \cup Identified \cup {"ended"}, id : Nat,
          ended : L!MayAskAgain \cup {"nothing", "label", "check the panel"}]
MayAsk == desk.step = "ended" /\ desk.ended \in L!MayAskAgain \cup {"nothing"}

FrenetInv ==
    /\ shipments \in Seq(States) /\ desk \in Desks
    /\ desk.step \in Identified \/ (desk.step = "ended" /\ ~MayAsk) => desk.id \in DOMAIN shipments
    /\ \A n \in DOMAIN shipments : shipments[n] = "paid" => n = desk.id
    /\ desk.step \in Unpaid \/ MayAsk => \A n \in DOMAIN shipments : shipments[n] # "paid"
    /\ desk.step = "pay" => shipments[desk.id] = "created"
LabelInv == carrier = "frenet" => FrenetInv

LEMMA Shipments ==
    ASSUME shipments \in Seq(States)
    PROVE  Len(shipments) \in Nat /\ \A n \in DOMAIN shipments : shipments[n] \in States
OBVIOUS

\* What becomes of the request's own shipment touches no other.
LEMMA MineIsOne ==
    ASSUME shipments \in Seq(States), desk.id \in DOMAIN shipments, NEW s \in States, L!Mine(s)
    PROVE  /\ shipments' \in Seq(States) /\ DOMAIN shipments' = DOMAIN shipments
           /\ shipments'[desk.id] = s
           /\ \A n \in DOMAIN shipments : n # desk.id => shipments'[n] = shipments[n]
BY DEF L!Mine

\* A new shipment is not paid.
LEMMA CreatedIsUnpaid ==
    ASSUME shipments \in Seq(States), shipments' = Append(shipments, "created")
    PROVE  /\ shipments' \in Seq(States)
           /\ Len(shipments) + 1 \in DOMAIN shipments' /\ shipments'[Len(shipments) + 1] = "created"
           /\ DOMAIN shipments \subseteq DOMAIN shipments'
           /\ \A n \in DOMAIN shipments' :
                shipments'[n] = "paid" => n \in DOMAIN shipments /\ shipments[n] = "paid"
BY DEF States

\* Every step of a request keeps it.
LEMMA LabelStep == LabelInv /\ [L!LabelsNext]_labelVars => LabelInv'
<1> SUFFICES ASSUME LabelInv, [L!LabelsNext]_labelVars, carrier' = "frenet" PROVE FrenetInv'
  BY DEF LabelInv
<1>0. carrier = "frenet"
  BY DEF L!LabelsNext, labelVars, L!Asks, L!TopUp, L!SpentElsewhere, L!Quotes, L!Creates, L!Pays, L!Confirms, L!Discards,
     L!Links, L!CancelsLabel
<1>a. FrenetInv BY <1>0 DEF LabelInv
<1> USE <1>0 DEF FrenetInv, Desks, Unpaid, Identified, MayAsk, L!MayAskAgain
<1>1. CASE L!Asks BY <1>a, <1>1 DEF L!Asks, L!NoId
<1>2. CASE L!TopUp \/ L!SpentElsewhere \/ UNCHANGED labelVars
  BY <1>a, <1>2 DEF L!TopUp, L!SpentElsewhere, labelVars
<1>3. CASE L!Quotes BY <1>a, <1>3 DEF L!Quotes, L!Goes, L!Ends
<1>4. CASE L!Creates
  <2>1. CASE UNCHANGED shipments /\ L!Ends("refused") BY <1>a, <1>4, <2>1 DEF L!Creates, L!Ends
  <2>2. CASE shipments' = Append(shipments, "created") /\ L!Ends("refused")
    BY <1>a, <1>4, <2>2, CreatedIsUnpaid DEF L!Creates, L!Ends
  <2>3. CASE /\ shipments' = Append(shipments, "created")
             /\ desk' = [desk EXCEPT !.step = "pay", !.id = Len(shipments) + 1]
    <3> DEFINE k == Len(shipments) + 1
    <3>1. k \in Nat
      <4>1. Len(shipments) \in Nat BY <1>a, Shipments
      <4>. QED BY <4>1
    <3>2. desk'.step = "pay" /\ desk'.id = k /\ desk' \in Desks BY <1>a, <2>3, <3>1
    <3>3. /\ shipments' \in Seq(States) /\ k \in DOMAIN shipments' /\ shipments'[k] = "created"
          /\ \A n \in DOMAIN shipments' :
                shipments'[n] = "paid" => n \in DOMAIN shipments /\ shipments[n] = "paid"
      BY <1>a, <2>3, CreatedIsUnpaid
    <3>4. \A n \in DOMAIN shipments : shipments[n] # "paid" BY <1>a, <1>4 DEF L!Creates
    <3> HIDE DEF k
    <3>. QED BY <3>2, <3>3, <3>4
  <2>. QED BY <1>4, <2>1, <2>2, <2>3 DEF L!Creates
<1>5. CASE L!Pays
  <2>1. CASE L!Mine("paid") /\ L!Goes("confirm")
    BY <1>a, <1>5, <2>1, MineIsOne DEF L!Pays, L!Goes, States
  <2>2. CASE UNCHANGED shipments /\ L!Goes("discard no balance") BY <1>a, <1>5, <2>2 DEF L!Pays, L!Goes
  <2>3. CASE UNCHANGED shipments /\ L!Goes("confirm") BY <1>a, <1>5, <2>3 DEF L!Pays, L!Goes
  <2>. QED BY <1>5, <2>1, <2>2, <2>3 DEF L!Pays
<1>6. CASE L!Confirms
  <2>1. UNCHANGED shipments BY <1>6 DEF L!Confirms
  <2>2. CASE shipments[desk.id] = "paid" /\ L!Goes("label") BY <1>a, <1>6, <2>1, <2>2 DEF L!Confirms, L!Goes
  <2>3. CASE shipments[desk.id] # "paid" /\ L!Goes("discard refused")
    BY <1>a, <1>6, <2>1, <2>3 DEF L!Confirms, L!Goes
  <2>4. CASE L!Ends("check the panel") BY <1>a, <1>6, <2>1, <2>4 DEF L!Confirms, L!Ends
  <2>. QED BY <1>6, <2>2, <2>3, <2>4 DEF L!Confirms, L!Unconfirmed
<1>7. CASE L!Discards
  <2> DEFINE s == IF shipments[desk.id] = "created" THEN "deleted" ELSE shipments[desk.id]
  <2>1. desk.id \in DOMAIN shipments /\ s \in States /\ s # "paid"
    <3>1. desk.id \in DOMAIN shipments /\ shipments[desk.id] # "paid" BY <1>a, <1>7 DEF L!Discards
    <3>2. shipments[desk.id] \in States BY <1>a, <3>1, Shipments
    <3>. QED BY <3>1, <3>2 DEF States
  <2>2. desk'.step = "ended" /\ desk'.id = desk.id /\ desk'.ended \in L!MayAskAgain /\ desk' \in Desks
    BY <1>a, <1>7 DEF L!Discards, L!Ends
  <2>3. CASE L!Mine(s)
    <3>1. /\ shipments' \in Seq(States) /\ DOMAIN shipments' = DOMAIN shipments
          /\ shipments'[desk.id] = s
          /\ \A n \in DOMAIN shipments : n # desk.id => shipments'[n] = shipments[n]
      BY <1>a, <2>1, <2>3, MineIsOne
    <3>2. \A n \in DOMAIN shipments : shipments[n] # "paid" BY <1>a, <1>7 DEF L!Discards
    <3>3. \A n \in DOMAIN shipments' : shipments'[n] # "paid" BY <2>1, <3>1, <3>2
    <3>. QED BY <1>a, <2>1, <2>2, <3>1, <3>3
  <2>4. CASE UNCHANGED shipments BY <1>a, <1>7, <2>2, <2>4 DEF L!Discards
  <2>. QED BY <1>7, <2>3, <2>4 DEF L!Discards
<1>8. CASE L!Links
  BY <1>a, <1>8 DEF L!Links, L!Ends
<1>9. CASE L!CancelsLabel
  <2>1. CASE L!Mine("cancelled") /\ desk' = [desk EXCEPT !.ended = "nothing"]
    BY <1>a, <1>9, <2>1, MineIsOne DEF L!CancelsLabel, States
  <2>2. CASE L!Mine("cancelled") /\ UNCHANGED desk
    BY <1>a, <1>9, <2>2, MineIsOne DEF L!CancelsLabel, States
  <2>3. CASE UNCHANGED <<shipments, desk>> BY <1>a, <1>9, <2>3 DEF L!CancelsLabel
  <2>. QED BY <1>9, <2>1, <2>2, <2>3 DEF L!CancelsLabel
<1>. QED BY <1>1, <1>2, <1>3, <1>4, <1>5, <1>6, <1>7, <1>8, <1>9 DEF L!LabelsNext

\* L!PaidOnce, what the run's property says of the labels, for any number of shipments and lost
\* answers: of a request at Frenet's platform at most one shipment is paid, and none at all when
\* the clerk may ask again.
THEOREM LabelPaidOnce == StorefrontSpec => []L!PaidOnce
<1>1. StorefrontInit => LabelInv
  <2>1. L!LabelsInit => LabelInv
    BY DEF L!LabelsInit, LabelInv, FrenetInv, Desks, Unpaid, Identified, MayAsk, L!MayAskAgain, L!NoId
  <2>. QED BY <2>1, StorefrontParts
<1>2. LabelInv => L!PaidOnce
  BY DEF LabelInv, FrenetInv, L!PaidOnce, L!Paid, MayAsk, L!MayAskAgain, Desks
<1>3. LabelInv /\ [StorefrontNext]_storefrontVars => LabelInv'
  BY StorefrontParts, LabelStep
<1>. QED BY <1>1, <1>2, <1>3, PTL DEF StorefrontSpec

\* What is proved of the checkout holds in the whole storefront.
THEOREM StorefrontChecksOut ==
    StorefrontSpec => [](OrderIsReviewed /\ FreightIsQuoted /\ RetryFindsItsOrder)
<1>1. StorefrontSpec => CheckoutSpec
  BY StorefrontParts, PTL DEF StorefrontSpec, CheckoutSpec
<1>. QED BY <1>1, OrderReviewed, FreightQuoted, RetryFinds, PTL
=============================================================================
