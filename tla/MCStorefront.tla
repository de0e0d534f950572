------------------------------ MODULE MCStorefront ------------------------------
(***************************************************************************)
(* What is sold and how it gets to the customer: the shop windows, the     *)
(* cart and its checkout, the parcels its freight is asked for, the        *)
(* carriers' offers, the labels that are bought.  The engine that packs    *)
(* keeps nothing, and each of the others assumes of the rest what their    *)
(* modules say, so a behaviour follows one of them, in focus, while the    *)
(* others rest where they start: every behaviour of each is there, their   *)
(* product is not.                                                         *)
(***************************************************************************)
EXTENDS Checkout, TLC

CONSTANTS kite,                    \* a model value
          MaxShipments, MaxFaults  \* of a label (model bounds)

VARIABLES focus,
          input, lone, todo, open, odd, blocks, boxes, parcels, stage,
          product, store, shopper, pager, basket, sale, edits, steady, openAtCheck,
          clock, moves, planning, tariff, cfg, cache, asking, shown, frozen,
          carrier, shipments, balance, desk, faults

packingVars == <<input, lone, todo, open, odd, blocks, boxes, parcels, stage>>
windowVars == <<product, store, shopper, pager, basket, sale, edits, steady, openAtCheck>>
offerVars == <<clock, moves, planning, tariff, cfg, cache, asking, shown, frozen>>
labelVars == <<carrier, shipments, balance, desk, faults>>
shopVars == <<checkoutVars, windowVars, packingVars>>
shippingVars == <<offerVars, labelVars>>
storefrontVars == <<focus, shopVars, shippingVars>>

-----------------------------------------------------------------------------
\* A variant at its price or in promotion, with a tier, and two units of it.
TheVariants == {kite}
Offer(promo) ==
    [active |-> TRUE, byUnit |-> TRUE, tracked |-> TRUE, own |-> None, base |-> 30, promo |-> promo,
     starts |-> None, ends |-> 1, soldOut |-> None, ownTiers |-> {}, tiers |-> {<<2000, 15>>},
     groups |-> {}, stock |-> 2000, product |-> 1]
TheOffers == {[v \in TheVariants |-> Offer(p)] : p \in {None, 12}}
TheZones == {<<[active |-> TRUE, byCep |-> TRUE, covers |-> {"near"}, fee |-> 7, least |-> 20]>>}
TheCoupons == {[active |-> TRUE, starts |-> None, ends |-> None, least |-> 0, max |-> None,
                perCustomer |-> 1, bps |-> 1000, amount |-> 0, cap |-> None, count |-> 0]}

\* Two boxes and a tube; a rigid item, one that may be soft, and perhaps one for the tube only.
Boxes == ("s" :> [space |-> <<2, 2, 2>>, tube |-> FALSE, cap |-> 5])
         @@ ("l" :> [space |-> <<3, 3, 2>>, tube |-> FALSE, cap |-> 6])
         @@ ("t" :> [space |-> <<4, 2, 2>>, tube |-> TRUE, cap |-> 3])
Item(d, units, upright, flexible, allowed, declared) ==
    [dims |-> d, weight |-> 1, units |-> units, upright |-> upright, flexible |-> flexible,
     allowed |-> allowed, declared |-> declared]
TheCarts ==
    {[item |-> ("a" :> Item(d, u, up, FALSE, {"s", "l"}, <<>>))
            @@ ("b" :> Item(e, v, FALSE, soft, allowed, declared)) @@ c,
      package |-> Boxes] :
        d \in {<<2, 1, 1>>, <<3, 2, 1>>, <<3, 3, 1>>}, u \in {1, 3}, up \in BOOLEAN,
        e \in {<<1, 1, 1>>, <<2, 2, 1>>}, v \in 1..2, soft \in BOOLEAN,
        allowed \in {{"s", "l"}, {"s", "t"}, {}}, declared \in {<<>>, ("s" :> 1)},
        c \in {<<>>, "c" :> Item(<<4, 1, 1>>, 1, FALSE, FALSE, {"t"}, <<>>)}}

\* What the engine may plan for a cart: one parcel or two, with what their material costs; and what
\* the carrier's services ask for them, 0 when they refuse.
Plan(n, v, m) == [parcels |-> n, volumes |-> v, material |-> m]
ThePlannings == {<<Plan(1, "big", 4), Plan(2, "two", 1), Plan(1, "big", 5)>>,
                 <<Plan(1, "big", 0), Plan(2, "two", 1)>>, <<Plan(2, "two", 1)>>}
Tariff(a, b, c, d) == "big" :> ("pac" :> a @@ "jad" :> b) @@ "two" :> ("pac" :> c @@ "jad" :> d)
TheTariffs == {Tariff(10, 9, 8, 0), Tariff(0, 9, 13, 9)}
TheSettings == {[services |-> {"pac", "jad"}, charge |-> TRUE, markup |-> 50, extra |-> 1],
                [services |-> {"jad"}, charge |-> FALSE, markup |-> 0, extra |-> 0]}

P == INSTANCE Packing WITH Carts <- TheCarts, Fill <- 85, MaxParcels <- 3, MaxSide <- 4,
                           MaxSum <- 8, MaxWeight <- 4
W == INSTANCE Vitrine WITH Products <- {1, 2, 3}, Positions <- {0, 1}, Wanted <- {1},
                           Statuses <- {"nobody", "pending", "blocked"}, Featured <- <<<<2>>>>,
                           PageSize <- 1, MAX_EXPOSED <- 2, MaxEdits <- 2, order <- sale
O == INSTANCE Offers WITH Services <- {"pac", "jad"}, Grouped <- {"jad"}, Plannings <- ThePlannings,
                          Tariffs <- TheTariffs, Settings <- TheSettings, MaxCandidates <- 2,
                          TTL <- 1, CacheTTL <- 2, MaxNow <- 2, MaxChanges <- 1,
                          now <- clock, changes <- moves, order <- frozen
L == INSTANCE Labels WITH Carriers <- {"frenet", "melhorenvio"}

StorefrontInit ==
    /\ focus \in {"checkout", "packing", "window", "offer", "label"}
    /\ focus # "packing" => input = CHOOSE c \in TheCarts : TRUE
    /\ focus # "offer" => /\ planning = CHOOSE p \in ThePlannings : TRUE
                          /\ tariff = CHOOSE t \in TheTariffs : TRUE
                          /\ cfg = CHOOSE s \in TheSettings : TRUE
    /\ focus # "label" => carrier = "frenet"
    /\ CheckoutInit
    /\ focus # "checkout" => shop.offer = CHOOSE o \in TheOffers : TRUE
    /\ P!PackInit /\ W!VitrineInit /\ O!OffersInit /\ L!LabelsInit

Selling ==
    /\ UNCHANGED shippingVars
    /\ \/ focus = "checkout" /\ CheckoutNext /\ UNCHANGED <<packingVars, windowVars>>
       \/ focus = "packing" /\ P!PackNext /\ UNCHANGED <<checkoutVars, windowVars>>
       \/ focus = "window" /\ W!VitrineNext /\ UNCHANGED <<checkoutVars, packingVars>>
Sending ==
    /\ UNCHANGED shopVars
    /\ \/ focus = "offer" /\ O!OffersNext /\ UNCHANGED labelVars
       \/ focus = "label" /\ L!LabelsNext /\ UNCHANGED offerVars
StorefrontNext == UNCHANGED focus /\ (Selling \/ Sending)

StorefrontSpec == StorefrontInit /\ [][StorefrontNext]_storefrontVars

-----------------------------------------------------------------------------
\* The pages of the catalogue skip and repeat nothing, the home's links open, and its button is true:
\* what can be bought without seeing the catalogue is what the store exposed (catalog/storefront).
WindowsAreTrue ==
    focus = "window" => W!PagesAreExact /\ W!HomeLinksOpen /\ W!ButtonIsTrue /\ W!OnlyOpenIsSold
\* What is sent is what was packed, asked and paid: every unit is in one parcel and fits it; the
\* order has the plan and the price of an option that was shown, and a label is paid once
\* (shipping/packing, quotes, providers).
ParcelsAreKept ==
    /\ focus = "packing" => P!AllPackedOnce /\ P!PackedForReal
    /\ focus = "offer" => O!OrderIsAsQuoted
    /\ focus = "label" => L!PaidOnce
=============================================================================
