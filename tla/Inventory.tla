------------------------------- MODULE Inventory -------------------------------
(***************************************************************************)
(* Stock of one store: a balance per variant (`inventory_balances`), the   *)
(* lines of stock that orders hold (`inventory_reservations`, one row per  *)
(* order and variant) and the sums of the append-only ledger of movements. *)
(*                                                                         *)
(* Every operation runs in one transaction under the row locks of the      *)
(* balances it touches, so it is one action here.  The operators named     *)
(* after the methods of ReservationService are the bodies that Sales.tla   *)
(* composes with the order; Next lets any caller make any call.            *)
(***************************************************************************)
EXTENDS Integers, FiniteSets, TLC

CONSTANTS Orders,     \* orders that may hold stock
          Variants,   \* product variants with tracked stock
          MaxQty,     \* largest quantity of one line (model bound)
          MaxOnHand   \* largest level a manual adjustment sets (model bound)

ASSUME InventoryAssumption ==
    /\ IsFiniteSet(Orders)
    /\ MaxQty \in Nat \ {0}
    /\ MaxOnHand \in Nat

VARIABLES onHand,    \* on_hand_milli of each balance
          reserved,  \* reserved_milli of each balance
          res,       \* res[o][v]: the reservation row of order o and variant v
          manual,    \* sum of the movements of stock adjustments, per variant
          sales,     \* sum of the sale_commit and sale_return movements, per variant
          events     \* stock events written to the outbox: <<kind, variant>>

invVars == <<onHand, reserved, res, manual, sales, events>>

\* Orders and variants are interchangeable.
Symmetry == Permutations(Orders) \cup Permutations(Variants)

-----------------------------------------------------------------------------
Status == {"none", "active", "committed", "released", "expired", "returned"}

Line == [status : Status, qty : 0..MaxQty, returned : 0..MaxQty]

NoLine == [status |-> "none", qty |-> 0, returned |-> 0]

Available(v) == onHand[v] - reserved[v]

\* The variants of order o whose reservation row has status s.
LinesOf(o, s) == {v \in Variants : res[o][v].status = s}

\* Variants a change of level from `onHand` to `level` takes from stock to none.
CrossedToZero_Exactly(level) == {v \in Variants : onHand[v] > 0 /\ level[v] = 0}   \* mutant
CrossedToZero(level) == {v \in Variants : onHand[v] > 0 /\ level[v] <= 0}

EmitSoldOut(level) == {"sold_out"} \X CrossedToZero(level)

-----------------------------------------------------------------------------
(* ReservationService *)

\* `needs[v] = 0`: the order has no line of that variant.
ReserveStock(o, needs) ==
    /\ res[o] = [v \in Variants |-> NoLine]
    /\ \A v \in Variants : needs[v] > 0 => needs[v] <= Available(v)
    /\ reserved' = [v \in Variants |-> reserved[v] + needs[v]]
    /\ res' = [res EXCEPT ![o] = [v \in Variants |->
                  IF needs[v] > 0
                  THEN [status |-> "active", qty |-> needs[v], returned |-> 0]
                  ELSE NoLine]]
    /\ UNCHANGED <<onHand, manual, sales, events>>

CommitStock(o) ==
    LET sold  == LinesOf(o, "active")
        taken == [v \in Variants |-> IF v \in sold THEN res[o][v].qty ELSE 0]
        level == [v \in Variants |-> onHand[v] - taken[v]]
    IN /\ onHand' = level
       /\ reserved' = [v \in Variants |-> reserved[v] - taken[v]]
       /\ sales' = [v \in Variants |-> sales[v] - taken[v]]
       /\ res' = [res EXCEPT ![o] = [v \in Variants |->
                     IF v \in sold THEN [res[o][v] EXCEPT !.status = "committed"]
                                   ELSE res[o][v]]]
       /\ events' = events \cup EmitSoldOut(level)
       /\ UNCHANGED manual

ReleaseStock_Row(o, closed) ==      \* mutant: the row is closed, the balance forgotten
    /\ res' = [res EXCEPT ![o] = [v \in Variants |->
                  IF v \in LinesOf(o, "active") THEN [res[o][v] EXCEPT !.status = closed]
                                                ELSE res[o][v]]]
    /\ UNCHANGED <<onHand, reserved, manual, sales, events>>
ReleaseStock(o, closed) ==      \* closed: "released" or "expired"
    LET held == LinesOf(o, "active")
    IN /\ reserved' = [v \in Variants |->
                          IF v \in held THEN reserved[v] - res[o][v].qty ELSE reserved[v]]
       /\ res' = [res EXCEPT ![o] = [v \in Variants |->
                     IF v \in held THEN [res[o][v] EXCEPT !.status = closed]
                                   ELSE res[o][v]]]
       /\ UNCHANGED <<onHand, manual, sales, events>>

\* Order o is paid in the transaction that creates it: reserve, then commit.
SellNow(o, needs) ==
    LET level == [v \in Variants |-> onHand[v] - needs[v]]
    IN /\ res[o] = [v \in Variants |-> NoLine]
       /\ \A v \in Variants : needs[v] > 0 => needs[v] <= Available(v)
       /\ onHand' = level
       /\ sales' = [v \in Variants |-> sales[v] - needs[v]]
       /\ res' = [res EXCEPT ![o] = [v \in Variants |->
                     IF needs[v] > 0
                     THEN [status |-> "committed", qty |-> needs[v], returned |-> 0]
                     ELSE NoLine]]
       /\ events' = events \cup EmitSoldOut(level)
       /\ UNCHANGED <<reserved, manual>>

\* All expired lines are still available (or there is none to take).
CanRecover_FromShelf(o) == \A v \in LinesOf(o, "expired") : res[o][v].qty <= onHand[v]   \* mutant
CanRecover(o) == \A v \in LinesOf(o, "expired") : res[o][v].qty <= Available(v)

RecoverStock(o) ==
    LET sold  == LinesOf(o, "expired")
        taken == [v \in Variants |-> IF v \in sold THEN res[o][v].qty ELSE 0]
        level == [v \in Variants |-> onHand[v] - taken[v]]
    IN /\ CanRecover(o)
       /\ onHand' = level
       /\ sales' = [v \in Variants |-> sales[v] - taken[v]]
       /\ res' = [res EXCEPT ![o] = [v \in Variants |->
                     IF v \in sold THEN [res[o][v] EXCEPT !.status = "committed"]
                                   ELSE res[o][v]]]
       /\ events' = events \cup EmitSoldOut(level)
       /\ UNCHANGED <<reserved, manual>>

Rest_IgnoresReturned(o, v) == res[o][v].qty   \* mutant
Rest(o, v) == res[o][v].qty - res[o][v].returned

\* A paid order was cancelled with restock: what has not come back yet comes back.
ReturnStock(o) ==
    LET back == LinesOf(o, "committed")
        put  == [v \in Variants |-> IF v \in back THEN Rest(o, v) ELSE 0]
    IN /\ onHand' = [v \in Variants |-> onHand[v] + put[v]]
       /\ sales' = [v \in Variants |-> sales[v] + put[v]]
       /\ res' = [res EXCEPT ![o] = [v \in Variants |->
                     IF v \in back
                     THEN [res[o][v] EXCEPT !.status = "returned", !.returned = res[o][v].qty]
                     ELSE res[o][v]]]
       /\ UNCHANGED <<reserved, manual, events>>

\* Items of the order come back: per variant, never more than the line still has.
ReturnSome(o, wanted) ==
    LET put == [v \in Variants |->
                   IF v \notin LinesOf(o, "committed") THEN 0
                   ELSE IF wanted[v] <= Rest(o, v) THEN wanted[v] ELSE Rest(o, v)]
    IN /\ onHand' = [v \in Variants |-> onHand[v] + put[v]]
       /\ sales' = [v \in Variants |-> sales[v] + put[v]]
       /\ res' = [res EXCEPT ![o] = [v \in Variants |->
                     IF put[v] = 0 THEN res[o][v]
                     ELSE [res[o][v] EXCEPT
                              !.returned = @ + put[v],
                              !.status = IF put[v] = Rest(o, v) THEN "returned" ELSE @]]]
       /\ UNCHANGED <<reserved, manual, events>>

-----------------------------------------------------------------------------
(* InventoryService.adjust *)

Kinds == {"receipt", "loss", "adjustment", "count"}

Amounts(kind) == CASE kind = "adjustment"         -> (-MaxQty..MaxQty) \ {0}
                   [] kind \in {"receipt", "loss"} -> 1..MaxQty
                   [] kind = "count"               -> 0..MaxOnHand

LevelAfter(kind, v, qty) == CASE kind = "loss"  -> onHand[v] - qty
                              [] kind = "count" -> qty
                              [] OTHER          -> onHand[v] + qty

\* One panel operation on the variants vs: every line is accepted or none is.
Adjust(kind, vs, qty) ==
    LET level == [v \in Variants |->
                     IF v \in vs THEN LevelAfter(kind, v, qty[v]) ELSE onHand[v]]
    IN /\ vs # {}
       /\ \A v \in vs :
             /\ level[v] >= 0
             /\ level[v] <= MaxOnHand                                \* model bound
             /\ kind \in {"loss", "adjustment"} => level[v] >= reserved[v]
       /\ onHand' = level
       /\ manual' = [v \in Variants |-> manual[v] + (level[v] - onHand[v])]
       /\ events' = events \cup EmitSoldOut(level)
                           \cup ({"oversold"} \X {v \in vs : level[v] < reserved[v]})
       /\ UNCHANGED <<reserved, res, sales>>

-----------------------------------------------------------------------------
InvInit ==
    /\ onHand \in [Variants -> 1..MaxOnHand]      \* after the first receipt
    /\ reserved = [v \in Variants |-> 0]
    /\ res = [o \in Orders |-> [v \in Variants |-> NoLine]]
    /\ manual = onHand
    /\ sales = [v \in Variants |-> 0]
    /\ events = {}

InvNext ==
    \/ \E o \in Orders :
         \/ \E needs \in [Variants -> 0..MaxQty] : ReserveStock(o, needs) \/ SellNow(o, needs)
         \/ CommitStock(o)
         \/ \E closed \in {"released", "expired"} : ReleaseStock(o, closed)
         \/ RecoverStock(o)
         \/ ReturnStock(o)
         \/ \E wanted \in [Variants -> 0..MaxQty] : ReturnSome(o, wanted)
    \/ \E kind \in Kinds : \E vs \in SUBSET Variants :
         \E qty \in [vs -> Amounts(kind)] : Adjust(kind, vs, qty)

InvSpec == InvInit /\ [][InvNext]_invVars

-----------------------------------------------------------------------------
\* Types.  Only what was sold comes back, and never more of a line than was sold.
Sold == {"committed", "returned"}
SoundLine == {line \in Line : /\ line.returned <= line.qty
                              /\ line.status \notin Sold => line.returned = 0}
InvTypeOK ==
    /\ onHand \in [Variants -> Int]
    /\ reserved \in [Variants -> Int]
    /\ res \in [Orders -> [Variants -> SoundLine]]
    /\ manual \in [Variants -> Int]
    /\ sales \in [Variants -> Int]
    /\ events \subseteq {"oversold", "sold_out"} \X Variants

\* The units of v that orders awaiting payment hold, and those that left and did not return.
HeldUnits(v) ==
    {u \in Orders \X (1..MaxQty) :
        res[u[1]][v].status = "active" /\ u[2] <= res[u[1]][v].qty}
SoldUnits(v) ==
    {u \in Orders \X (1..MaxQty) :
        /\ res[u[1]][v].status \in Sold
        /\ u[2] > res[u[1]][v].returned
        /\ u[2] <= res[u[1]][v].qty}

\* The daily check `reserved_mismatches`: what a balance says is reserved is what the
\* active reservations hold, whatever order payments, expiries and cancellations came in.
ReservedIsHeld == \A v \in Variants : reserved[v] = Cardinality(HeldUnits(v))

\* Stock is neither created nor lost by orders: the shelf has what the store put there
\* minus what was sold and not returned, and the ledger (`audit_ledger`) tells it.
StockConserved ==
    \A v \in Variants :
        /\ sales[v] = - Cardinality(SoldUnits(v))
        /\ onHand[v] = manual[v] + sales[v]

\* Open orders never hold more than the shelf has, unless a physical count found less and
\* the store was told by an `inventory.oversold` event.
ShortfallIsFlagged ==
    \A v \in Variants : reserved[v] > onHand[v] => <<"oversold", v>> \in events

\* However the last unit leaves (a sale, a late sale, a loss, a count), `inventory.sold_out`
\* is emitted: the promotion that ends with the stock waits for it.
SoldOutIsAnnounced ==
    \A v \in Variants : onHand[v] <= 0 => <<"sold_out", v>> \in events

\* A line of stock that was given back stays given back; only an expired one may still be sold.
LineNext(old, new) ==
    \/ old = new
    \/ old = "none" /\ new \in {"active", "committed"}
    \/ old = "active" /\ new \in {"committed", "released", "expired"}
    \/ old = "expired" /\ new = "committed"
    \/ old = "committed" /\ new = "returned"
LinesNeverReopen ==
    [][\A o \in Orders, v \in Variants :
          LineNext(res[o][v].status, res'[o][v].status)]_invVars
=============================================================================
