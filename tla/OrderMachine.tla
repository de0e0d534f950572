----------------------------- MODULE OrderMachine -----------------------------
EXTENDS Naturals
(* The pure order state machine (orders/state_machine.py): which actor may take an *)
(* order from one status to another, and what its fulfillment shows afterwards.    *)

OrderStatus == {"awaiting_payment", "payment_confirmed", "accepted", "in_production",
                "ready_for_pickup", "shipped", "delivered", "cancelled", "failed"}

PAID_STATUSES == OrderStatus \ {"awaiting_payment", "cancelled", "failed"}

FulfillmentType == {"pickup", "delivery", "shipping", "none"}

FulfillmentStatus == {"pending", "ready", "picked_up", "out_for_delivery", "delivered",
                      "cancelled", "none"}

ActorKind == {"customer", "operator", "system", "agent"}

AfterPayment == PAID_STATUSES \ {"delivered"}

CancelOrder == <<"payment_confirmed", "accepted">>

\* What a guard may look at: type is the order's fulfillment_type, approved whether it has an
\* approved payment, limit the store's `customer_cancel_until`.
CustomerWindow(status, limit) ==
    \E i, j \in DOMAIN CancelOrder : i <= j /\ CancelOrder[i] = status /\ CancelOrder[j] = limit

Move(sources, target, actors, types) ==
    [sources |-> sources, target |-> target, actors |-> actors, types |-> types]

TRANSITIONS ==
    {Move({"awaiting_payment", "failed"}, "payment_confirmed", {"system"}, FulfillmentType),
     Move({"awaiting_payment"}, "failed", {"system"}, FulfillmentType),
     Move({"awaiting_payment"}, "cancelled", {"customer", "agent", "operator"}, FulfillmentType),
     Move({"payment_confirmed", "accepted"}, "cancelled", {"customer"}, FulfillmentType),
     Move(AfterPayment, "cancelled", {"operator"}, FulfillmentType),
     Move({"payment_confirmed"}, "accepted", {"system", "operator"}, FulfillmentType),
     Move({"accepted"}, "in_production", {"operator"}, FulfillmentType),
     Move({"accepted", "in_production"}, "ready_for_pickup", {"operator"}, {"pickup", "delivery"}),
     Move({"ready_for_pickup"}, "shipped", {"operator", "system"}, {"delivery"}),
     Move({"accepted", "in_production"}, "shipped", {"operator"}, {"delivery", "shipping"}),
     Move({"accepted", "in_production"}, "delivered", {"operator"}, {"none"}),
     Move({"ready_for_pickup", "shipped"}, "delivered", {"operator"}, FulfillmentType),
     Move({"shipped"}, "delivered", {"system"}, FulfillmentType)}

\* The guards that are not about the fulfillment type: nobody cancels an unpaid order whose
\* payment is approved, and a customer cancels a paid one only within the store's window.
Guard(status, target, actor, approved, limit) ==
    /\ status = "awaiting_payment" /\ target = "cancelled" => ~approved
    /\ status \in PAID_STATUSES /\ target = "cancelled" /\ actor = "customer" =>
          CustomerWindow(status, limit)

Fulfills(type, types) == type \in types

Allowed(status, target, actor, type, approved, limit) ==
    /\ \E t \in TRANSITIONS : /\ status \in t.sources
                              /\ target = t.target
                              /\ actor \in t.actors
                              /\ Fulfills(type, t.types)
    /\ Guard(status, target, actor, approved, limit)

\* The fulfillment status of an order that shows `now` when it reaches `target`.
FulfillmentAfter(target, type, now) ==
    CASE type = "none"                               -> "none"
      [] type # "none" /\ target = "cancelled"        -> "cancelled"
      [] type # "none" /\ target = "ready_for_pickup" -> "ready"
      [] type # "none" /\ target = "shipped"          -> "out_for_delivery"
      [] type # "none" /\ target = "delivered"        ->
            IF type = "pickup" THEN "picked_up" ELSE "delivered"
      [] OTHER                                        -> now
=============================================================================
