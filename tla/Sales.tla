--------------------------------- MODULE Sales ---------------------------------
(***************************************************************************)
(* The life of the orders of one store (OrderService): placing, paying,    *)
(* recovering a late payment, cancelling, expiring, delivering; with what  *)
(* each of these does, in the same transaction, to the stock (Inventory),  *)
(* to the coupon and to the tickets.  Every operation takes the order's    *)
(* row lock (place: cart, coupon, balances), so it is one action.          *)
(*                                                                         *)
(* When a payment is approved is decided elsewhere (Payments.tla): here it *)
(* may be at any moment before the deadline's job runs, or after.          *)
(***************************************************************************)
EXTENDS Inventory, OrderMachine

CONSTANTS CustomerOf,      \* the customer of each order
          OfferedTypes,    \* the ways of delivery the store offers
          SellsTickets,    \* whether it sells event tickets
          LoneTypes,       \* bound: ways of delivery that are followed one order at a time
          MaxOpenOrders,   \* checkout setting `max_open_orders`
          MaxRedemptions,  \* the coupon's `max_redemptions`
          PerCustomer      \* the coupon's `per_customer_limit`

ASSUME SalesAssumption ==
    /\ MaxOpenOrders \in Nat /\ MaxRedemptions \in Nat /\ PerCustomer \in Nat
    /\ DOMAIN CustomerOf = Orders
    /\ OfferedTypes \subseteq FulfillmentType /\ LoneTypes \subseteq FulfillmentType /\ SellsTickets \in BOOLEAN

VARIABLES status,       \* status of each order ("new": not placed yet)
          type,         \* fulfillment_type; "none": tickets, services, digital goods
          fulfillment,  \* fulfillment_status
          paid,         \* "no"; paid_at set: by "money", or "free" (nothing to pay)
          due,          \* expires_at has passed
          coupon,       \* the order's coupon redemption: "none", "active", "released"
          redemptions,  \* redemptions_count of the coupon
          ticket        \* the order's ticket: "none", "sold" (not issued yet), "issued", "used"

orderVars == <<status, type, fulfillment, paid, due, coupon, redemptions, ticket>>
salesVars == <<invVars, orderVars>>

-----------------------------------------------------------------------------
(* Coupons *)

Uses(c) == Cardinality({o \in Orders : coupon[o] = "active" /\ CustomerOf[o] = c})

CanRedeem(c) == redemptions < MaxRedemptions /\ Uses(c) < PerCustomer

RedeemCoupon(o) ==
    /\ CanRedeem(CustomerOf[o])
    /\ redemptions' = redemptions + 1
    /\ coupon' = [coupon EXCEPT ![o] = "active"]

ReleaseCoupon_KeepsPlace(o) ==          \* mutant: the row is closed, the count forgotten
    /\ coupon' = [coupon EXCEPT ![o] = IF @ = "active" THEN "released" ELSE @]
    /\ UNCHANGED redemptions
ReleaseCoupon(o) ==
    IF coupon[o] = "active"
    THEN /\ coupon' = [coupon EXCEPT ![o] = "released"]
         /\ redemptions' = IF redemptions > 0 THEN redemptions - 1 ELSE 0
    ELSE UNCHANGED <<coupon, redemptions>>

-----------------------------------------------------------------------------
(* OrderService *)

OpenOrders(c) == {o \in Orders : status[o] = "awaiting_payment" /\ CustomerOf[o] = c}

\* `_transition`: the machine allows it, then status, stamp and fulfillment change together.
Transition(o, target, actor, limit) ==
    /\ status[o] \in OrderStatus
    /\ Allowed(status[o], target, actor, type[o], paid[o] # "no", limit)
    /\ status' = [status EXCEPT ![o] = target]
    /\ fulfillment' = [fulfillment EXCEPT ![o] = FulfillmentAfter(target, type[o], @)]

\* `issue_for_order`: the ticket of an order's ticket line exists once the order is paid.
Issued(o, sold) == [ticket EXCEPT ![o] = IF sold THEN "issued" ELSE @]

AfterPaid(auto) == IF auto THEN "accepted" ELSE "payment_confirmed"

\* `_paid`: paid, tickets issued, then accepted at once if the store accepts by itself.
Paid(o, how, auto) ==
    /\ Allowed(status[o], "payment_confirmed", "system", type[o], paid[o] # "no", "accepted")
    /\ status' = [status EXCEPT ![o] = AfterPaid(auto)]
    /\ paid' = [paid EXCEPT ![o] = how]
    /\ ticket' = Issued(o, ticket[o] = "sold")
    /\ UNCHANGED <<type, fulfillment, due>>

\* needs: stock of tracked variants; free: the total is zero, the order is paid as it is placed.
Place(o, kind, needs, withTicket, withCoupon, free, auto) ==
    /\ status[o] = "new"
    /\ Cardinality(OpenOrders(CustomerOf[o])) < MaxOpenOrders
    /\ IF withCoupon THEN RedeemCoupon(o) ELSE UNCHANGED <<coupon, redemptions>>
    /\ type' = [type EXCEPT ![o] = kind]
    /\ fulfillment' = [fulfillment EXCEPT ![o] = IF kind = "none" THEN "none" ELSE "pending"]
    /\ IF free
       THEN /\ SellNow(o, needs)
            /\ status' = [status EXCEPT ![o] = AfterPaid(auto)]
            /\ paid' = [paid EXCEPT ![o] = "free"]
            /\ ticket' = Issued(o, withTicket)
       ELSE /\ ReserveStock(o, needs)
            /\ status' = [status EXCEPT ![o] = "awaiting_payment"]
            /\ ticket' = [ticket EXCEPT ![o] = IF withTicket THEN "sold" ELSE "none"]
            /\ UNCHANGED paid
    /\ UNCHANGED due

ConfirmPayment(o, auto) ==
    /\ status[o] = "awaiting_payment"
    /\ CommitStock(o)
    /\ Paid(o, "money", auto)
    /\ UNCHANGED <<coupon, redemptions>>

RecoverLatePayment_WithoutStock(o, auto) ==     \* mutant
    /\ status[o] = "failed"
    /\ Paid(o, "money", auto)
    /\ UNCHANGED <<invVars, coupon, redemptions>>
\* The event of a ticket order may be over: then nothing is recovered (no step).
RecoverLatePayment(o, auto) ==
    /\ status[o] = "failed"
    /\ RecoverStock(o)
    /\ Paid(o, "money", auto)
    /\ UNCHANGED <<coupon, redemptions>>

Cancel(o, actor, limit, restock) ==
    /\ Transition(o, "cancelled", actor, limit)
    /\ IF status[o] = "awaiting_payment"
       THEN ReleaseCoupon(o) /\ ReleaseStock(o, "released")
       ELSE /\ UNCHANGED <<coupon, redemptions>>
            /\ IF restock THEN ReturnStock(o) ELSE UNCHANGED invVars
    /\ UNCHANGED <<type, paid, due, ticket>>

DeadlinePasses(o) ==
    /\ status[o] = "awaiting_payment" /\ ~due[o]
    /\ due' = [due EXCEPT ![o] = TRUE]
    /\ UNCHANGED <<invVars, status, type, fulfillment, paid, coupon, redemptions, ticket>>

Due_WithoutCoupon(o) == due[o] /\ coupon[o] = "none"        \* mutant
Due(o) == status[o] = "awaiting_payment" /\ due[o]

Expire(o) ==
    /\ Due(o)
    /\ Transition(o, "failed", "system", "accepted")
    /\ ReleaseCoupon(o)
    /\ ReleaseStock(o, "expired")
    /\ UNCHANGED <<type, paid, due, ticket>>

\* The panel (or the store's assistant) moves the order along; cancelling goes through Cancel.
StoreMoves(o, target) ==
    /\ target # "cancelled"
    /\ Transition(o, target, "operator", "accepted")
    /\ UNCHANGED <<invVars, type, paid, due, coupon, redemptions, ticket>>

CarrierDelivered(o) ==
    /\ status[o] = "shipped"
    /\ Transition(o, "delivered", "system", "accepted")
    /\ UNCHANGED <<invVars, type, paid, due, coupon, redemptions, ticket>>

CourierPickedUp(o) ==
    /\ status[o] = "ready_for_pickup"
    /\ Transition(o, "shipped", "system", "accepted")
    /\ UNCHANGED <<invVars, type, paid, due, coupon, redemptions, ticket>>

\* The pickup nobody saw is taken first, in the same transaction.
CourierDelivered(o) ==
    /\ status[o] \in {"ready_for_pickup", "shipped"}
    /\ status[o] = "ready_for_pickup" =>
          Allowed("ready_for_pickup", "shipped", "system", type[o], paid[o] # "no", "accepted")
    /\ status' = [status EXCEPT ![o] = "delivered"]
    /\ fulfillment' = [fulfillment EXCEPT ![o] = FulfillmentAfter("delivered", type[o], @)]
    /\ UNCHANGED <<invVars, type, paid, due, coupon, redemptions, ticket>>

\* A refund of some items puts them back on the shelf (refunds.request, restock).
RefundItems(o, wanted) ==
    /\ paid[o] = "money"
    /\ ReturnSome(o, wanted)
    /\ UNCHANGED orderVars

\* The door reads the ticket's code: TicketValidator.validate.
Admit(o) ==
    /\ ticket[o] = "issued"
    /\ ticket' = [ticket EXCEPT ![o] = "used"]
    /\ UNCHANGED <<invVars, status, type, fulfillment, paid, due, coupon, redemptions>>

AdjustStock(kind, vs, qty) == Adjust(kind, vs, qty) /\ UNCHANGED orderVars

-----------------------------------------------------------------------------
SalesInit ==
    /\ InvInit
    /\ status = [o \in Orders |-> "new"]
    /\ type = [o \in Orders |-> "none"]
    /\ fulfillment = [o \in Orders |-> "none"]
    /\ paid = [o \in Orders |-> "no"]
    /\ due = [o \in Orders |-> FALSE]
    /\ coupon = [o \in Orders |-> "none"]
    /\ redemptions = 0
    /\ ticket = [o \in Orders |-> "none"]

\* Bound: an order of these kinds, or with a ticket, is followed alone.
Followed(o, kind, withTicket) ==
    \A p \in Orders \ {o} :
        \/ status[p] = "new"
        \/ {kind, type[p]} \cap LoneTypes = {} /\ ~withTicket /\ ticket[p] = "none"

SalesNext ==
    \/ \E o \in Orders :
         \/ \E kind \in OfferedTypes, needs \in [Variants -> 0..MaxQty],
               withTicket \in {FALSE, SellsTickets}, withCoupon, free, auto \in BOOLEAN :
                  /\ Followed(o, kind, withTicket)
                  /\ Place(o, kind, needs, withTicket, withCoupon, free, auto)
         \/ \E auto \in BOOLEAN : ConfirmPayment(o, auto) \/ RecoverLatePayment(o, auto)
         \/ \E actor \in ActorKind, limit \in {"payment_confirmed", "accepted"},
               restock \in BOOLEAN : Cancel(o, actor, limit, restock)
         \/ DeadlinePasses(o) \/ Expire(o)
         \/ \E target \in OrderStatus : StoreMoves(o, target)
         \/ CarrierDelivered(o) \/ CourierPickedUp(o) \/ CourierDelivered(o)
         \/ \E wanted \in [Variants -> 0..MaxQty] : RefundItems(o, wanted)
         \/ Admit(o)
    \/ \E kind \in Kinds : \E vs \in SUBSET Variants :
         \E qty \in [vs -> Amounts(kind)] : AdjustStock(kind, vs, qty)

SalesSpec == SalesInit /\ [][SalesNext]_salesVars

\* Time passes, and the beat runs the expiry job every minute: a due order is expired unless
\* something else settles it first.
SalesFair == \A o \in Orders : WF_salesVars(DeadlinePasses(o)) /\ WF_salesVars(Expire(o))

-----------------------------------------------------------------------------

LinesIn(o, allowed) == \A v \in Variants : res[o][v].status \in allowed \cup {"none"}

\* The order and its stock tell the same story, whichever of payment, expiry, recovery and
\* cancellation came first: an unpaid order holds all its lines, a failed one none of them, a
\* paid one took them all (an all-or-nothing recovery leaves no expired line behind), a
\* cancelled one gave back what it held.
StockFollowsOrder ==
    \A o \in Orders :
        LinesIn(o, CASE status[o] = "new"              -> {}
                     [] status[o] = "awaiting_payment" -> {"active"}
                     [] status[o] = "failed"           -> {"expired"}
                     [] status[o] \in PAID_STATUSES    -> Sold
                     [] status[o] = "cancelled"        ->
                           IF paid[o] = "no" THEN {"released"} ELSE Sold)

\* `redemptions_count` counts the redemptions that hold a place, after any mix of expiries,
\* cancellations and late payments.
CouponCountIsActive == redemptions = Cardinality({o \in Orders : coupon[o] = "active"})

\* An order does not wait for payment for ever: it is paid, cancelled, or it fails and gives
\* its stock and its coupon back.
UnpaidOrdersSettle ==
    \A o \in Orders : status[o] = "awaiting_payment" ~> status[o] # "awaiting_payment"

\* A model's CustomerOf: every order is of one customer.
OneCustomer == [o \in Orders |-> "customer"]
=============================================================================
