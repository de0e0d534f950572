---------------------------------- MODULE Lots ----------------------------------
(***************************************************************************)
(* The lots of one event (EventService) and the orders for their tickets.  *)
(* A lot is a variant whose stock is its tickets.  The panel's operations  *)
(* lock the product's row and the shoppers' lock the balances, so nothing  *)
(* keeps a removal, which only reads the balance, apart from a sale.       *)
(*                                                                         *)
(* Every order is for one ticket.  The panel's stock page is left out: the *)
(* tickets of a lot are counted through the lot.                           *)
(***************************************************************************)
EXTENDS Integers, FiniteSets, FiniteSetsExt

CONSTANTS LotIds,       \* variants the event's lots take, in order of creation
          Buyers,       \* orders, of one ticket each
          Quantities,   \* of a lot
          Capacities,   \* of the event
          Unlimited

VARIABLES event,      \* its capacity; whether its lots sell, stopped selling, or it is over
          published,  \* the product is in the storefront
          lot,        \* per variant: not yet, live or removed; quantity; balance
          removing,   \* the lot a request found unsold and is about to remove
          order       \* per order: its state and its lot

lotsVars == <<event, published, lot, removing, order>>

NoLot == 0
Fresh == [status |-> "none", qty |-> 0, onHand |-> 0, reserved |-> 0]
Live == {v \in LotIds : lot[v].status = "live"}
Allocated(l) == MapThenSumSet(LAMBDA v : l[v].qty, {v \in LotIds : l[v].status = "live"})
Unlocked == removing = NoLot     \* nobody holds the product's row

-----------------------------------------------------------------------------
(* The panel, under the product's lock *)

Fits(cap, l) == cap # Unlimited => Allocated(l) <= cap

\* `upsert`: the event as a whole, its capacity never below what its lots have.
Upsert(cap, phase) ==
    /\ Unlocked /\ Fits(cap, lot)
    /\ event' = [capacity |-> cap, phase |-> phase]
    /\ UNCHANGED <<published, lot, removing, order>>

\* `add_lot`: its stock is counted to its quantity.
AddLot(v, q) ==
    LET added == [lot EXCEPT ![v] = [@ EXCEPT !.status = "live", !.qty = q, !.onHand = q]]
    IN  /\ Unlocked /\ lot[v].status = "none"
        /\ \A w \in LotIds : w < v => lot[w].status # "none"
        /\ Fits(event.capacity, added)
        /\ lot' = added
        /\ UNCHANGED <<event, published, removing, order>>

\* `update_lot`: the stock changes by the difference, and stays enough for what is reserved.
UpdateLot(v, q) ==
    LET changed == [lot EXCEPT ![v].qty = q, ![v].onHand = @ + q - lot[v].qty]
    IN  /\ Unlocked /\ v \in Live /\ q # lot[v].qty
        /\ Fits(event.capacity, changed)
        /\ changed[v].onHand >= 0 /\ changed[v].onHand >= lot[v].reserved
        /\ lot' = changed
        /\ UNCHANGED <<event, published, removing, order>>

\* `remove_lot` reads the balance without a lock ...
FindsUnsold(v) ==
    /\ Unlocked /\ v \in Live
    /\ lot[v].onHand >= lot[v].qty /\ lot[v].reserved = 0
    /\ published => Cardinality(Live) > 1
    /\ removing' = v
    /\ UNCHANGED <<event, published, lot, order>>

\* ... and removes the lot, whatever was sold meanwhile.
RemovesLot ==
    /\ ~Unlocked
    /\ lot' = [lot EXCEPT ![removing].status = "removed"]
    /\ removing' = NoLot
    /\ UNCHANGED <<event, published, order>>

\* `publish` and `unpublish` take no lock, but write the product's row.
Publish(to) ==
    /\ Unlocked /\ published' = to /\ (to => Live # {})
    /\ UNCHANGED <<event, lot, removing, order>>

-----------------------------------------------------------------------------
(* The shoppers, under the balance's lock *)

\* `lot_state` "on_sale", priced again where the balance is locked.
OnSale(v) ==
    /\ v \in Live /\ published /\ event.phase = "on"
    /\ lot[v].onHand - lot[v].reserved > 0
Place(o, v) ==
    /\ order[o].state = "none" /\ OnSale(v)
    /\ order' = [order EXCEPT ![o] = [state |-> "pending", lot |-> v]]
    /\ lot' = [lot EXCEPT ![v].reserved = @ + 1]
    /\ UNCHANGED <<event, published, removing>>

Leaves(o, to, hand, held) ==
    LET v == order[o].lot
    IN  /\ order' = [order EXCEPT ![o].state = to]
        /\ lot' = [lot EXCEPT ![v].onHand = @ + hand, ![v].reserved = @ + held]
        /\ UNCHANGED <<event, published, removing>>
Pay(o) == order[o].state = "pending" /\ Leaves(o, "paid", -1, -1)
Expire(o) == order[o].state = "pending" /\ Leaves(o, "expired", 0, -1)

\* `recover_late_payment`: the event goes on and the balance has the ticket.
StillOn_Always(v) == TRUE                                               \* mutant
StillOn(v) == event.phase # "over" /\ lot[v].onHand - lot[v].reserved >= 1
RecoverLate(o) ==
    /\ order[o].state = "expired" /\ StillOn(order[o].lot)
    /\ Leaves(o, "paid", -1, 0)

\* A paid order is cancelled, its ticket put back on sale or not.
CancelPaid(o, restock) ==
    /\ order[o].state = "paid"
    /\ IF restock THEN Leaves(o, "returned", 1, 0) ELSE Leaves(o, "written_off", 0, 0)

-----------------------------------------------------------------------------
LotsInit ==
    /\ event \in [capacity : Capacities, phase : {"on"}]
    /\ published = FALSE
    /\ lot = [v \in LotIds |-> Fresh]
    /\ removing = NoLot
    /\ order = [o \in Buyers |-> [state |-> "none", lot |-> NoLot]]

LotsNext ==
    \/ \E cap \in Capacities, phase \in {"on", "closed", "over"} : Upsert(cap, phase)
    \/ \E v \in LotIds : \/ FindsUnsold(v)
                         \/ \E q \in Quantities : AddLot(v, q) \/ UpdateLot(v, q)
    \/ RemovesLot
    \/ \E to \in BOOLEAN : Publish(to)
    \/ \E o \in Buyers : \/ \E v \in LotIds : Place(o, v)
                         \/ Pay(o) \/ Expire(o) \/ RecoverLate(o)
                         \/ \E restock \in BOOLEAN : CancelPaid(o, restock)

LotsSpec == LotsInit /\ [][LotsNext]_lotsVars

-----------------------------------------------------------------------------
OrdersIn(v, states) == {o \in Buyers : order[o].lot = v /\ order[o].state \in states}

\* A lot's tickets are neither made nor lost: what it was given is what it still has and what
\* was sold and not taken back, after any changes of its quantity and late payments; and what is
\* reserved is there.  The lots never promise more tickets than the event has places.
LotsAddUp ==
    /\ Fits(event.capacity, lot)
    /\ \A v \in LotIds \ {w \in LotIds : lot[w].status = "none"} :
          /\ lot[v].qty = lot[v].onHand + Cardinality(OrdersIn(v, {"paid", "written_off"}))
          /\ lot[v].reserved = Cardinality(OrdersIn(v, {"pending"}))
          /\ lot[v].reserved <= lot[v].onHand
=============================================================================
