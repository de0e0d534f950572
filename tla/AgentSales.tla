------------------------------- MODULE AgentSales -------------------------------
(***************************************************************************)
(* The assistant that sells in a conversation (internal_agent_sales): it   *)
(* registers the customer, says what some items cost without touching the  *)
(* cart, and places the order through the cart the customer also has on    *)
(* the site, which it empties and fills (CartService, OrderService.place). *)
(* From the first lock of the cart to the commit the customer's requests   *)
(* wait, but a cart that does not exist cannot be locked.                  *)
(***************************************************************************)
EXTENDS Naturals, Sequences, SequencesExt, FiniteSets

CONSTANTS
    Items,           \* variants
    Prices,          \* what the merchant may ask for one
    Stock,           \* units of each at the start
    OFF, FEE,        \* what a coupon takes off, what a delivery adds
    Mode,            \* of the store: "public" or "closed"
    Calls,           \* requests of the assistant
    References,      \* of a message
    MaxOrders, MaxChanges, MaxQuotes   \* model bounds

VARIABLES
    price, stock,
    access,    \* the customer's row in the store
    cart,      \* the customer's open cart; it is locked by the call in it
    call,      \* per request of the assistant: what it asks for and what it found
    heard,     \* the last things quoted in the conversation: lines and total
    orders,
    changes, quotes

salesVars == <<price, stock, access, cart, call, heard, orders, changes, quotes>>

Idle == [at |-> "idle"]
NoCart == [open |-> FALSE]
Emptied == [lines |-> <<>>, coupon |-> FALSE, way |-> "none"]
\* The lines are a bag of items; a cart keeps its coupon and its way when it is emptied.
Units(lines, i) == Len(SelectSeq(lines, LAMBDA x : x = i))
Sum(lines) == FoldSeq(LAMBDA i, sum : price[i] + sum, 0, lines)
Holder == {c \in Calls : call[c].at = "emptied" /\ call[c].locks}
Unlocked == Holder = {}

-----------------------------------------------------------------------------
\* `resolve_customer`: no row yet, and an open store knows everybody; `_blocker` is the rule of the
\* storefront.
Resolve ==
    /\ access = "none"
    /\ access' = IF Mode = "public" THEN "approved" ELSE "pending"
    /\ UNCHANGED <<price, stock, cart, call, heard, orders, changes, quotes>>
Blocked == Mode # "public" /\ access # "approved"

\* `quote`: the price of now, without the cart, its coupon or its delivery.
Quote(lines) ==
    /\ quotes < MaxQuotes
    /\ heard' = [lines |-> lines, total |-> Sum(lines)]
    /\ quotes' = quotes + 1
    /\ UNCHANGED <<price, stock, access, cart, call, orders, changes>>

\* `place`: nobody the store did not let in, and the cart is emptied under its lock ...
Starts(c, ref, pickup) ==
    /\ call[c] = Idle /\ heard.lines # <<>>
    /\ access # "none" /\ ~Blocked /\ Unlocked
    /\ call' = [call EXCEPT ![c] = [at |-> "emptied", ref |-> ref, lines |-> heard.lines,
                                    total |-> heard.total, locks |-> cart.open, pickup |-> pickup]]
    /\ UNCHANGED <<price, stock, access, cart, heard, orders, changes, quotes>>

\* ... filled, with what a cart opened on the site meanwhile has, and collected where the
\* conversation said; every item must be in stock, and the way known ...
Filled(c) ==
    LET k == call[c]
        b == IF cart.open THEN cart.is ELSE Emptied
    IN  [lines |-> IF k.locks THEN k.lines ELSE b.lines \o k.lines,
         coupon |-> b.coupon, way |-> IF k.pickup THEN "pickup" ELSE b.way]
InStock(lines) == \A i \in Items : Units(lines, i) <= stock[i]
Total(b) == LET sum == Sum(b.lines)
            IN  (IF b.coupon THEN (IF sum > OFF THEN sum - OFF ELSE 0) ELSE sum)
                + (IF b.way = "delivery" THEN FEE ELSE 0)

\* ... and closed: an order of the same message is returned, with the cart as it was filled; else the
\* total must be the one that was heard.  Whatever is refused leaves nothing, the cart as it was.
Known(ref) == \E i \in DOMAIN orders : orders[i].ref = ref
CheckQuote_Less(total, expected) == total >= expected            \* mutant: a dearer order is let through
CheckQuote(total, expected) == total = expected
Places(c) ==
    LET k == call[c]
        b == Filled(c)
        accepted == CheckQuote(Total(b), k.total)
        made == [ref |-> k.ref, asked |-> k.lines, heard |-> k.total, lines |-> b.lines,
                 total |-> Total(b), joined |-> ~k.locks /\ cart.open]
    IN  /\ k.at = "emptied" /\ Holder \subseteq {c}
        /\ call' = [call EXCEPT ![c] = Idle]
        /\ IF ~InStock(b.lines) \/ b.way = "none" \/ (~Known(k.ref) /\ ~accepted) THEN UNCHANGED <<stock, cart, orders>>
           ELSE IF Known(k.ref) THEN cart' = [open |-> TRUE, is |-> b] /\ UNCHANGED <<stock, orders>>
           ELSE /\ Len(orders) < MaxOrders
                /\ orders' = Append(orders, made)
                /\ stock' = [i \in Items |-> stock[i] - Units(b.lines, i)]
                /\ cart' = NoCart
        /\ UNCHANGED <<price, access, heard, changes, quotes>>

-----------------------------------------------------------------------------
\* The customer on the site: puts an item, takes everything out, a coupon, a delivery; and buys.
OnSite(now) ==
    /\ Unlocked /\ changes < MaxChanges
    /\ cart' = now /\ changes' = changes + 1
    /\ UNCHANGED <<price, access, call, heard, orders, quotes>>
Basket == IF cart.open THEN cart.is ELSE Emptied
PutsItem(i) == OnSite([open |-> TRUE, is |-> [Basket EXCEPT !.lines = Append(@, i)]]) /\ UNCHANGED stock
PutsCoupon == OnSite([open |-> TRUE, is |-> [Basket EXCEPT !.coupon = TRUE]]) /\ UNCHANGED stock
Chooses(way) == OnSite([open |-> TRUE, is |-> [Basket EXCEPT !.way = way]]) /\ UNCHANGED stock
Buys ==
    /\ Basket.lines # <<>> /\ Basket.way # "none" /\ InStock(Basket.lines)
    /\ OnSite(NoCart)
    /\ stock' = [i \in Items |-> stock[i] - Units(Basket.lines, i)]

\* The merchant: another price, and the customer let in or blocked.
SetsPrice(i, p) ==
    /\ changes < MaxChanges
    /\ price' = [price EXCEPT ![i] = p] /\ changes' = changes + 1
    /\ UNCHANGED <<stock, access, cart, call, heard, orders, quotes>>
Decides(status) ==
    /\ access # "none" /\ changes < MaxChanges
    /\ access' = status /\ changes' = changes + 1
    /\ UNCHANGED <<price, stock, cart, call, heard, orders, quotes>>

AgentSalesInit ==
    /\ price = [i \in Items |-> CHOOSE p \in Prices : TRUE] /\ stock = [i \in Items |-> Stock]
    /\ access = "none" /\ cart = NoCart /\ call = [c \in Calls |-> Idle]
    /\ heard = [lines |-> <<>>, total |-> 0]
    /\ orders = <<>> /\ changes = 0 /\ quotes = 0

AgentSalesNext ==
    \/ Resolve
    \/ \E lines \in {<<i>> : i \in Items} \cup {<<i, i>> : i \in Items} : Quote(lines)
    \/ \E c \in Calls : Places(c) \/ \E ref \in References, pickup \in BOOLEAN : Starts(c, ref, pickup)
    \/ PutsCoupon \/ Buys \/ \E way \in {"pickup", "delivery"} : Chooses(way)
    \/ \E i \in Items : PutsItem(i) \/ \E p \in Prices : SetsPrice(i, p)
    \/ \E status \in {"approved", "blocked"} : Decides(status)

-----------------------------------------------------------------------------
\* Whatever the customer does on the site and the merchant in the panel meanwhile, an order of the
\* assistant costs what was heard in the conversation and a message makes one order; it holds the
\* items asked for and no other, unless the customer opened a cart between the emptying of none
\* and the filling, when only the total guards it.
AgentOrderIsAsHeard ==
    \A i \in DOMAIN orders :
        /\ orders[i].total = orders[i].heard
        /\ orders[i].joined \/ orders[i].lines = orders[i].asked
        /\ \A j \in DOMAIN orders : orders[j].ref = orders[i].ref => j = i
=============================================================================
