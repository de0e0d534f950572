-------------------------------- MODULE Vitrine --------------------------------
(***************************************************************************)
(* What a shopper sees of a store and may buy from it: the home, the pages *)
(* of the catalogue, a product and the cart (storefront_catalog.py,        *)
(* catalog/storefront.py, landing/resolver.py, api/deps.py), while the     *)
(* panel changes products and closes or opens the store.  A store that is  *)
(* closed with its home open shows who has no access the products exposed  *)
(* there, and sells those marked `open` (catalog/exposure.py).  One        *)
(* shopper; a product is its position, then its id; each has a variant.    *)
(***************************************************************************)
EXTENDS Naturals, FiniteSets, Sequences, FiniteSetsExt, SequencesExt

CONSTANTS
    Products,        \* ids, numbers
    Positions,
    Wanted,          \* the products the shopper puts in its cart
    Statuses,        \* what its access may be
    Featured,        \* the blocks of the home: the products each one cites
    PageSize,        \* products in a page of the catalogue
    MAX_EXPOSED,
    MaxEdits         \* bound: what the panel changes

VARIABLES
    product,         \* each one's status, position, exposure on the home, and its variant
    store,           \* access mode, and whether the landing is locked too
    shopper,         \* its access, and whether it has the store's pass
    pager,           \* the pages it turned: the cursor, what it saw of each product
    basket,          \* the products in its cart and the cart's version
    order,           \* the request that places it, and what was ordered
    edits,
    \* observed only
    steady,          \* products published, where they are, since the first page
    openAtCheck      \* the products sold straight from the home when the order was asked for

vitrineVars == <<product, store, shopper, pager, basket, order, edits, steady, openAtCheck>>

PUBLISHED_STATUSES == {"active", "paused"}
EXPOSED == {"preview", "open"}
NoPages == [at |-> <<>>, turning |-> FALSE, seen |-> [p \in Products |-> 0]]
NoRequest == [is |-> "none"]

-----------------------------------------------------------------------------
\* `check_catalog_access`; `home_open`: the store is closed and its landing is not.
Admitted ==
    \/ store.mode = "public"
    \/ /\ shopper.status # "blocked"
       /\ \/ shopper.pass
          \/ store.mode = "login_required" /\ shopper.status # "nobody"
          \/ shopper.status = "approved"
LandingLocked == store.mode # "public" /\ store.locked
HomeOpen == store.mode # "public" /\ ~store.locked

Published == {p \in Products : product[p].status \in PUBLISHED_STATUSES}
Exposed == {p \in Published : product[p].exposure \in EXPOSED}

\* `list_cards`: by (position, id), what is after the cursor, one more than the page.
After_Position(p, at) == product[p].position > at[1]       \* mutant: the tie is forgotten
After(p, at) == \/ product[p].position > at[1]
                \/ product[p].position = at[1] /\ p > at[2]
Before(p, q) == After(q, <<product[p].position, p>>)
Sorted(set) == SetToSortSeq(set, Before)
FirstOf(s, n) == SubSeq(s, 1, IF n < Len(s) THEN n ELSE Len(s))
ListCards(at) == FirstOf(Sorted({p \in Published : at = <<>> \/ After(p, at)}), PageSize + 1)

\* `storefront_products`
TurnPage ==
    LET cards == ListCards(pager.at) page == FirstOf(cards, PageSize) last == Last(page)
    IN /\ Admitted
       /\ pager.at = <<>> => ~pager.turning
       /\ pager' = [at |-> IF Len(cards) > PageSize THEN <<product[last].position, last>> ELSE <<>>,
                    turning |-> TRUE,
                    seen |-> [p \in Products |-> pager.seen[p] + (IF p \in ToSet(page) THEN 1 ELSE 0)]]
       /\ steady' = IF pager.turning THEN steady ELSE Published
       /\ UNCHANGED <<product, store, shopper, basket, order, edits, openAtCheck>>
StartOver ==
    /\ pager.turning /\ pager' = NoPages /\ steady' = {}
    /\ UNCHANGED <<product, store, shopper, basket, order, edits, openAtCheck>>

-----------------------------------------------------------------------------
\* `resolve_landing`: the cards the blocks cite; who has no access gets the exposed ones, and those
\* no block cites go to the first block, up to what it holds (`_place_loose`).
Cited == UNION {ToSet(Featured[i]) : i \in DOMAIN Featured}
ExposedCards == FirstOf(Sorted(Exposed), MAX_EXPOSED)
Loose == SelectSeq(ExposedCards, LAMBDA p : p \notin Cited)
Room == LET used == Len(Featured[1]) IN IF used < MAX_EXPOSED THEN MAX_EXPOSED - used ELSE 0
Blocks == IF Featured = <<>> THEN <<Loose>>
          ELSE [Featured EXCEPT ![1] = @ \o FirstOf(Loose, Room)]
Shown(cards, blocks) == cards \cap UNION {ToSet(blocks[i]) : i \in DOMAIN blocks}
HomeLinks == IF Admitted THEN Shown(Published, Featured)
        ELSE IF HomeOpen THEN Shown(ToSet(ExposedCards), Blocks) ELSE {}

\* `require_catalog_or_exposed`, `storefront_product`: whether the page opens.
Opens(p) ==
    /\ p \in Published
    /\ Admitted \/ (HomeOpen /\ shopper.status # "blocked" /\ p \in Exposed)

\* `variant_availability`, and what the page's button says.
Availability(p) ==
    LET v == product[p].variant
    IN IF product[p].status = "paused" \/ v.paused THEN "unavailable"
       ELSE IF v.policy = "made_to_order" THEN "made_to_order"
       ELSE IF v.policy # "tracked" \/ v.free > 0 THEN "available" ELSE "sold_out"
BuyRequiresAccess(p) == ~Admitted /\ product[p].exposure # "open"
Offered(p) ==
    Opens(p) /\ Availability(p) \in {"available", "made_to_order"} /\ ~BuyRequiresAccess(p)

-----------------------------------------------------------------------------
\* `require_checkout`: who may have a cart; without access, only what is sold from the home.
Shops == shopper.status \notin {"nobody", "blocked"} /\ (Admitted \/ HomeOpen)
OpenToBuy(set) == \A p \in set : product[p].exposure = "open"

\* `PricingService.price`: whether a line of one unit stands.
Stands(p) ==
    /\ product[p].status = "active" /\ ~product[p].variant.paused
    /\ product[p].variant.policy = "tracked" => product[p].variant.free > 0
CanAdd(p) == Shops /\ (Admitted \/ OpenToBuy({p})) /\ Stands(p)

Add(p) ==
    /\ p \notin basket.items /\ CanAdd(p)
    /\ basket' = [items |-> basket.items \cup {p}, version |-> basket.version + 1]
    /\ UNCHANGED <<product, store, shopper, pager, order, edits, steady, openAtCheck>>

\* The request carries the version of the cart that was reviewed.
Reviews ==
    /\ order = NoRequest /\ basket.items # {} /\ Shops
    /\ order' = [is |-> "reviewed", version |-> basket.version]
    /\ UNCHANGED <<product, store, shopper, pager, basket, edits, steady, openAtCheck>>

\* `place_order`: without access the lines are checked first (`ensure_open_to_buy`) ...
NothingToCheck(set) == TRUE       \* mutant: the cart checked it when it was added
MayBuy(set) == OpenToBuy(set)
Checks ==
    /\ order.is = "reviewed"
    /\ order' = IF Shops /\ (Admitted \/ MayBuy(basket.items))
                THEN [is |-> "checked", version |-> order.version, free |-> Admitted] ELSE NoRequest
    /\ openAtCheck' = {p \in Products : product[p].exposure = "open"}
    /\ UNCHANGED <<product, store, shopper, pager, basket, edits, steady>>

\* ... then the cart is locked, its version compared, and its lines priced again.
Places ==
    /\ order.is = "checked"
    /\ order' = IF basket.version = order.version /\ \A p \in basket.items : Stands(p)
                THEN [is |-> "placed", items |-> basket.items, free |-> order.free] ELSE NoRequest
    /\ UNCHANGED <<product, store, shopper, pager, basket, edits, steady, openAtCheck>>

-----------------------------------------------------------------------------
\* The panel changes a product, the stock moves, or the store is opened or closed.
Edit(p, new) ==
    /\ edits < MaxEdits /\ edits' = edits + 1
    /\ product' = [product EXCEPT ![p] = new] /\ new # product[p]
    /\ steady' = IF new.status \in PUBLISHED_STATUSES /\ new.position = product[p].position
                 THEN steady ELSE steady \ {p}
    /\ UNCHANGED <<store, shopper, pager, basket, order, openAtCheck>>
Moves(p) == \E n \in Positions : Edit(p, [product[p] EXCEPT !.position = n])
Publishes(p) == \E s \in PUBLISHED_STATUSES \cup {"inactive"} : Edit(p, [product[p] EXCEPT !.status = s])
Exposes(p) == \E e \in EXPOSED \cup {"hidden"} : Edit(p, [product[p] EXCEPT !.exposure = e])
Edited(v) == {[v EXCEPT !.paused = ~@], [v EXCEPT !.policy = "made_to_order"], [v EXCEPT !.free = 1 - @]}
Supplies(p) == \E v \in Edited(product[p].variant) : Edit(p, [product[p] EXCEPT !.variant = v])

SetAccess(mode, locked) ==
    /\ edits < MaxEdits /\ edits' = edits + 1
    /\ store' = [mode |-> mode, locked |-> locked] /\ store' # store
    /\ UNCHANGED <<product, shopper, pager, basket, order, steady, openAtCheck>>

\* The shopper signs in, is approved or blocked, or types the store's password (StorePass).
Becomes(status, pass) ==
    /\ shopper' = [status |-> status, pass |-> pass] /\ shopper' # shopper
    /\ UNCHANGED <<product, store, pager, basket, order, edits, steady, openAtCheck>>

VitrineInit ==
    /\ product = [p \in Products |->
            [status |-> "active", position |-> 0, exposure |-> IF p = 1 THEN "open" ELSE "hidden",
             variant |-> [policy |-> "tracked", paused |-> FALSE, free |-> 1]]]
    /\ store = [mode |-> "whitelist", locked |-> FALSE]
    /\ shopper = [status |-> "nobody", pass |-> FALSE]
    /\ pager = NoPages
    /\ basket = [items |-> {}, version |-> 0]
    /\ order = NoRequest
    /\ edits = 0 /\ steady = {} /\ openAtCheck = {}

VitrineNext ==
    \/ TurnPage \/ StartOver \/ Reviews \/ Checks \/ Places
    \/ \E p \in Wanted : Add(p)
    \/ \E p \in Products : Moves(p) \/ Publishes(p) \/ Exposes(p) \/ Supplies(p)
    \/ \E mode \in {"public", "login_required", "whitelist"}, locked \in BOOLEAN : SetAccess(mode, locked)
    \/ \E status \in Statuses, pass \in BOOLEAN : Becomes(status, pass)

-----------------------------------------------------------------------------
\* Whoever turns the pages while the panel works sees each product that stayed where it was once,
\* and at the last page has seen them all (list_cards, storefront_products).
PagesAreExact ==
    pager.turning => \A p \in steady : /\ pager.seen[p] <= 1
                                       /\ pager.at = <<>> => pager.seen[p] = 1

\* The home leads nobody to a page that refuses, unless blocked; and the cart of who is signed in
\* takes exactly what the page offers (resolve_landing, storefront_product, require_checkout).
HomeLinksOpen == shopper.status # "blocked" => \A p \in HomeLinks : Opens(p)
ButtonIsTrue ==
    shopper.status \notin {"nobody", "blocked"} => \A p \in Products : Offered(p) <=> CanAdd(p)

\* An order that somebody without access places has only what was sold from the home when it was
\* asked for, whatever was added meanwhile (place_order).
OnlyOpenIsSold == order.is = "placed" /\ ~order.free => order.items \subseteq openAtCheck
=============================================================================
