-------------------------------- MODULE Offers --------------------------------
(***************************************************************************)
(* The freight of a cart, from the quotation to the label                  *)
(* (shipping/service, plan, signing).  The packing engine offers a few     *)
(* plans of parcels; the carrier is asked the price of each, all at once,  *)
(* some answers coming from the cache and some calls failing; for each of  *)
(* its services the cheapest plan is offered, signed.  Placing the order   *)
(* plans again and freezes the plan that was signed, if it is still one of *)
(* them; the label is bought for it.  Meanwhile products, packages, the    *)
(* store's settings and the carrier's prices change.                       *)
(*                                                                         *)
(* A plan is its hash: how many parcels, their measures and weights, and   *)
(* what the packages cost.  The cart and the address that a signature also *)
(* binds are in Checkout.                                                  *)
(***************************************************************************)
EXTENDS Integers, Sequences, FiniteSets

CONSTANTS
    Services,              \* of the carrier
    Grouped,               \* services that take several parcels under one label
    Plannings,             \* what the engine may offer for the cart: sequences of plans,
                           \*   [parcels, volumes, material]
    Tariffs,               \* of the carrier: what it asks for some volumes, 0 when it refuses
    Settings,              \* of the store: [services, charge, markup, extra]
    MaxCandidates,         \* plans that are quoted; the engine may have more
    TTL, CacheTTL,         \* shipping_quote_ttl_minutes, and half of it
    MaxNow, MaxChanges     \* bounds

VARIABLES
    now, changes,
    planning, tariff, cfg, \* as they are now
    cache,                 \* answers kept: for which volumes and services, of when
    asking,                \* the quotation under way: its plans, settings, and the answers so far
    shown,                 \* the options the browser holds, signed, with what they came from
    order                  \* the option and the plan that were frozen, and the label bought

offersVars == <<now, changes, planning, tariff, cfg, cache, asking, shown, order>>

NotAsking == [plans |-> <<>>]
NoAnswer == [is |-> "waiting"]
Failed == [is |-> "failed"]
NoOrder == <<>>

-----------------------------------------------------------------------------
(* Prices *)

\* `round` of Python: a half goes to the even side.
RoundHalf(n, d) ==
    LET q == n \div d
        r == n % d
    IN  IF 2 * r > d \/ (2 * r = d /\ q % 2 = 1) THEN q + 1 ELSE q
\* `customer_price`
CustomerPrice(carrier, material, settings) ==
    RoundHalf((carrier + material) * (100 + settings.markup), 100) + settings.extra

\* `label_mode`
LabelMode(plan, service) ==
    IF plan.parcels <= 1 THEN "single" ELSE IF service \in Grouped THEN "multi_volume" ELSE "per_volume"

\* `choose_offers`: of the plans that were answered, for each service it can be sent by, the
\* cheapest to the store, then that of fewer parcels, then the one ranked first.
Before(a, b) ==
    \/ a[1] < b[1]
    \/ a[1] = b[1] /\ (a[2] < b[2] \/ (a[2] = b[2] /\ a[3] < b[3]))
Answered(q, i) == q.answer[i].is = "ok"
Usable(q, s) == {i \in DOMAIN q.plans : Answered(q, i) /\ q.answer[i].price[s] > 0}
Rank(q, s, i) == <<q.answer[i].price[s] + q.plans[i].material, q.plans[i].parcels, i>>
Chosen(q, s) ==
    CHOOSE i \in Usable(q, s) :
        \A j \in Usable(q, s) \ {i} : Before(Rank(q, s, i), Rank(q, s, j))

\* `_sign`
Signed(q, s) ==
    LET plan == q.plans[Chosen(q, s)]
        price == q.answer[Chosen(q, s)].price[s]
    IN  [service |-> s, plan |-> plan, mode |-> LabelMode(plan, s), at |-> q.at, of |-> q,
         price |-> CustomerPrice(price, IF q.cfg.charge THEN plan.material ELSE 0, q.cfg)]

-----------------------------------------------------------------------------
(* A quotation: options, _quote_many, _ask *)

Quoted(plans) == SubSeq(plans, 1, IF Len(plans) < MaxCandidates THEN Len(plans) ELSE MaxCandidates)

\* The engine plans with the data of now.
Asks ==
    LET plans == Quoted(planning)
    IN  /\ asking = NotAsking /\ cfg.services # {}
        /\ asking' = [plans |-> plans, cfg |-> cfg, at |-> now,
                      answer |-> [i \in DOMAIN plans |-> NoAnswer]]
        /\ UNCHANGED <<now, changes, planning, tariff, cfg, cache, shown, order>>

Waiting(i) == asking # NotAsking /\ i \in DOMAIN asking.plans /\ asking.answer[i].is = "waiting"
\* Plans with the same volumes share a call.
Alike(i) == {j \in DOMAIN asking.plans : asking.plans[j].volumes = asking.plans[i].volumes}
Answer(i, what) ==
    asking' = [asking EXCEPT !.answer = [j \in DOMAIN @ |-> IF j \in Alike(i) THEN what ELSE @[j]]]

Key(i) == <<asking.plans[i].volumes, asking.cfg.services>>
Cached(i) == {e \in cache : e.key = Key(i) /\ now - e.answer.at < CacheTTL}
FromCache(i) ==
    /\ Waiting(i)
    /\ \E e \in Cached(i) : Answer(i, e.answer)
    /\ UNCHANGED <<now, changes, planning, tariff, cfg, cache, shown, order>>
\* The carrier answers for the services that were asked for; the answer is kept, a failure is not.
FromCarrier(i) ==
    LET price == [s \in Services |->
                     IF s \in asking.cfg.services THEN tariff[asking.plans[i].volumes][s] ELSE 0]
        answer == [is |-> "ok", price |-> price, at |-> now]
    IN  /\ Waiting(i) /\ Cached(i) = {}
        /\ Answer(i, answer)
        /\ cache' = {e \in cache : e.key # Key(i)} \cup {[key |-> Key(i), answer |-> answer]}
        /\ UNCHANGED <<now, changes, planning, tariff, cfg, shown, order>>
CarrierFails(i) ==
    /\ Waiting(i) /\ Cached(i) = {}
    /\ Answer(i, Failed)
    /\ UNCHANGED <<now, changes, planning, tariff, cfg, cache, shown, order>>

\* All have been answered or have failed.
Quotes ==
    /\ asking # NotAsking /\ \A i \in DOMAIN asking.plans : ~Waiting(i)
    /\ shown' = {Signed(asking, s) : s \in {t \in Services : Usable(asking, t) # {}}}
    /\ asking' = NotAsking
    /\ UNCHANGED <<now, changes, planning, tariff, cfg, cache, order>>

-----------------------------------------------------------------------------
(* The order: _shipping_problem, resolve_frozen_plan, _request *)

Expired(option) == now - option.at > TTL
\* The signed plan is looked for among all that the engine has now.
Stands_Anything(plan) == TRUE                              \* mutant
Stands(plan) == \E i \in DOMAIN planning : planning[i] = plan
Places(option) ==
    /\ order = NoOrder /\ option \in shown
    /\ ~Expired(option) /\ Stands(option.plan)
    /\ order' = <<[option |-> option, plan |-> option.plan, mode |-> option.mode,
                   packed |-> planning, at |-> now, label |-> {}]>>
    /\ UNCHANGED <<now, changes, planning, tariff, cfg, cache, asking, shown>>

\* One label, or one for each parcel: with the volumes that were frozen, whatever they are today.
Labels ==
    /\ order # NoOrder /\ order[1].label = {}
    /\ order' = <<[order[1] EXCEPT !.label =
           {[volumes |-> order[1].plan.volumes, service |-> order[1].option.service,
             labels |-> IF order[1].mode = "per_volume" THEN order[1].plan.parcels ELSE 1]}]>>
    /\ UNCHANGED <<now, changes, planning, tariff, cfg, cache, asking, shown>>

-----------------------------------------------------------------------------
\* Products, packages, settings and prices change, and time passes (no quotation takes that long).
Change ==
    /\ changes < MaxChanges /\ changes' = changes + 1
    /\ \/ planning' \in Plannings \ {planning} /\ UNCHANGED <<tariff, cfg>>
       \/ tariff' \in Tariffs \ {tariff} /\ UNCHANGED <<planning, cfg>>
       \/ cfg' \in Settings \ {cfg} /\ UNCHANGED <<planning, tariff>>
    /\ UNCHANGED <<now, cache, asking, shown, order>>
Tick ==
    /\ now < MaxNow /\ asking = NotAsking
    /\ now' = now + 1
    /\ cache' = {e \in cache : now' - e.answer.at < CacheTTL}
    /\ UNCHANGED <<changes, planning, tariff, cfg, asking, shown, order>>

OffersInit ==
    /\ now = 0 /\ changes = 0
    /\ planning \in Plannings /\ tariff \in Tariffs /\ cfg \in Settings
    /\ cache = {} /\ asking = NotAsking /\ shown = {} /\ order = NoOrder
OffersNext ==
    \/ Asks \/ Quotes \/ Labels \/ Change \/ Tick
    \/ \E i \in 1..MaxCandidates : FromCache(i) \/ FromCarrier(i) \/ CarrierFails(i)
    \/ \E option \in shown : Places(option)
OffersSpec == OffersInit /\ [][OffersNext]_offersVars
-----------------------------------------------------------------------------
\* An order goes in the plan that the engine would make now and the carrier was asked for: at the
\* price it answered, not long ago, plus what the store adds; with no cheaper plan among those it
\* answered; and its labels are of that plan.
OrderIsAsQuoted ==
    order # NoOrder =>
        LET o == order[1]
            q == o.option.of
            s == o.option.service
        IN  /\ \E j \in DOMAIN o.packed : o.packed[j] = o.plan
            /\ \E i \in Usable(q, s) :
                /\ q.plans[i] = o.plan
                /\ o.at - q.answer[i].at <= TTL + CacheTTL
                /\ LET material == IF q.cfg.charge THEN o.plan.material ELSE 0
                   IN  o.option.price = CustomerPrice(q.answer[i].price[s], material, q.cfg)
                /\ \A j \in Usable(q, s) :
                    q.answer[i].price[s] + o.plan.material
                        <= q.answer[j].price[s] + q.plans[j].material
            /\ \A l \in o.label : l.volumes = o.plan.volumes /\ l.labels \in {1, o.plan.parcels}
=============================================================================
