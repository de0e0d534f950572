-------------------------------- MODULE Catalog --------------------------------
(***************************************************************************)
(* One product in the panel (CatalogService, and the lots of EventService  *)
(* as far as they make variants): its status and kind, the matrix of its   *)
(* variants and its images.  One clerk edits; the worker that renders the  *)
(* images runs beside.                                                     *)
(*                                                                         *)
(* A price is free (0) or not (1).  A combination of option values is a    *)
(* name; NoCombo is the variant without options.  Texts, SKUs, slugs,      *)
(* measures, tags and the event's own fields are left out.  Apart from     *)
(* that: the promotion that ends with the stock.                           *)
(***************************************************************************)
EXTENDS Integers, Sequences, FiniteSets

CONSTANTS Slots,     \* rows of product_variants this product may have
          Combos,    \* the combinations of option values, in the matrix's order
          MaxImages, \* images waiting or ready (model bound)
          NoCombo, None,
          Skus,      \* variants of a product in promotion, all with counted stock
          MaxStock   \* units of one of them on the shelf (model bound)

VARIABLES product,   \* status, kind, base price, whether it has an event
          variant,   \* per row: archived or not, its status, combination, whether it is a lot
          options,   \* the combinations of its options, a set; {} when it has none
          images,    \* how many images are ready, and how many are being rendered
          promo,     \* whether there is a promotion, in its dates, ending with the stock, and ended by it
          sku,       \* per variant: own price, sellable, and on_hand
          announced, \* sold_out events not yet handled
          edited     \* the panel or the calendar changed something since the last one was emitted

catalogVars == <<product, variant, options, images>>
sellOutVars == <<promo, sku, announced, edited>>

ProductStatus == {"draft", "active", "paused", "inactive", "archived"}
PUBLISHED == {"active", "paused"}
LIVE_VARIANT == {"active", "paused"}
Row(status, combo, lot) == [row |-> "live", status |-> status, combo |-> combo, lot |-> lot]
NoRow == [row |-> "none", status |-> "inactive", combo |-> NoCombo, lot |-> FALSE]

Rows(v) == {s \in Slots : v[s].row = "live"}
Sold(v) == {s \in Rows(v) : v[s].status \in LIVE_VARIANT}
Lots(v) == {s \in Slots : v[s].lot}
IsPublished == product.status \in PUBLISHED
Editable == product.status \notin {"none", "archived"}

-----------------------------------------------------------------------------
(* The product *)

\* `create_product`: a draft with its default variant.
Create(kind, price) ==
    /\ product.status = "none"
    /\ product' = [status |-> "draft", kind |-> kind, price |-> price, event |-> FALSE]
    /\ variant' = [variant EXCEPT ![1] = Row("active", NoCombo, FALSE)]
    /\ UNCHANGED <<options, images>>

\* `update_product`, of the price and the kind: a published product that is not a ticket keeps a
\* price.  A ticket with an event stays a ticket; a product with options does not become one.
NeedsPrice(kind) == product.kind # "ticket"
Update(kind, price) ==
    /\ Editable
    /\ product.kind = "ticket" /\ kind # "ticket" => ~product.event
    /\ kind = "ticket" /\ product.kind # "ticket" => options = {}
    /\ NeedsPrice(kind) /\ IsPublished => price > 0
    /\ product' = [product EXCEPT !.kind = kind, !.price = price]
    /\ UNCHANGED <<variant, options, images>>

Missing == {p \in {"event", "price", "active_variant", "media"} :
    CASE p = "event"          -> product.kind = "ticket" /\ Lots(variant) = {}
      [] p = "price"          -> product.kind # "ticket" /\ product.price = 0
      [] p = "active_variant" -> \A s \in Rows(variant) : variant[s].status # "active"
      [] p = "media"          -> images.ready = 0}
Publish ==
    /\ product.status \in {"draft", "inactive"}
    /\ Missing = {}
    /\ product' = [product EXCEPT !.status = "active"]
    /\ UNCHANGED <<variant, options, images>>

Becomes(from, to) ==
    /\ product.status \in from
    /\ product' = [product EXCEPT !.status = to]
    /\ UNCHANGED <<variant, options, images>>
Unpublish == Becomes(PUBLISHED, "inactive")
PauseProduct == Becomes({"active"}, "paused")
ResumeProduct == Becomes({"paused"}, "active")
Archive == Becomes(ProductStatus \ {"archived"}, "archived")

-----------------------------------------------------------------------------
(* Its variants *)

LeavesOne_Any(s) == TRUE                                 \* mutant
LeavesOne(s) == Sold(variant) \ {s} # {}

\* `update_variant`: the last one a published product sells is not switched off.
UpdateVariant(s, status) ==
    /\ Editable /\ s \in Rows(variant)
    /\ IsPublished /\ status = "inactive" /\ s \in Sold(variant) => LeavesOne(s)
    /\ variant' = [variant EXCEPT ![s].status = status]
    /\ UNCHANGED <<product, options, images>>

\* `_set_variant_paused`: only an active one is paused, only a paused one resumed.
PauseVariant(s) ==
    /\ Editable /\ s \in Sold(variant)
    /\ variant' = [variant EXCEPT ![s].status = IF @ = "active" THEN "paused" ELSE "active"]
    /\ UNCHANGED <<product, options, images>>

\* `set_options`, under the product's lock.  A combination keeps the variant that has it, a live
\* one before an archived one; the default variant becomes the first combination without one;
\* the others are new.  Without options one variant stays: the default, or the first.
First(S) == CHOOSE s \in S : \A t \in S : s <= t
With(combo) == {s \in Slots : variant[s].row # "none" /\ variant[s].combo = combo}
Default == IF Rows(variant) \cap With(NoCombo) = {} THEN None
           ELSE First(Rows(variant) \cap With(NoCombo))
Known(c) == IF With(c) = {} THEN None
            ELSE IF With(c) \cap Rows(variant) # {} THEN First(With(c) \cap Rows(variant))
            ELSE First(With(c))
NewOnes(C) == {c \in C : Known(c) = None}
Position(c) == CHOOSE i \in 1..Len(Combos) : Combos[i] = c
Index(c, new) == Cardinality({d \in new : Position(d) <= Position(c)})
Spare(n) == CHOOSE s \in Slots : /\ variant[s].row = "none"
                                 /\ Cardinality({t \in Slots : variant[t].row = "none" /\ t < s}) = n - 1
Planned(c, C) ==
    LET i == Index(c, NewOnes(C))
    IN  IF Known(c) # None THEN Known(c)
        ELSE IF Default = None THEN Spare(i)
        ELSE IF i = 1 THEN Default ELSE Spare(i - 1)
Plan(C) == IF C = {} THEN {<<NoCombo, IF Default # None THEN Default ELSE First(Rows(variant))>>}
           ELSE {<<c, Planned(c, C)>> : c \in C}
StaysOnSale(C) ==
    \E p \in Plan(C) : LET old == variant[p[2]]
                       IN  old.row # "live" \/ old.status \in LIVE_VARIANT
Kept(C) == {p[2] : p \in Plan(C)}
SetOptions(C) ==
    LET free == Cardinality({s \in Slots : variant[s].row = "none"})
        made == Cardinality(NewOnes(C)) - (IF Default = None THEN 0 ELSE 1)
    IN  /\ Editable /\ product.kind # "ticket" /\ C # options
        /\ made <= free                                                    \* model bound
        /\ IsPublished => StaysOnSale(C)
        /\ variant' = [s \in Slots |->
               IF s \in Kept(C)
               THEN Row(IF variant[s].row = "live" THEN variant[s].status ELSE "active",
                        (CHOOSE p \in Plan(C) : p[2] = s)[1], FALSE)
               ELSE IF s \in Rows(variant) THEN [variant[s] EXCEPT !.row = "archived", !.status = "inactive"]
               ELSE variant[s]]
        /\ options' = C
        /\ UNCHANGED <<product, images>>

-----------------------------------------------------------------------------
(* The event and its lots *)

IsTicket == Editable /\ product.kind = "ticket"
PutEvent ==
    /\ IsTicket /\ ~product.event
    /\ product' = [product EXCEPT !.event = TRUE]
    /\ UNCHANGED <<variant, options, images>>

\* The first lot takes the default variant, the others get a variant of their own.
AddLot ==
    LET taken == Lots(variant)
        row   == IF taken = {} /\ Rows(variant) # {} THEN First(Rows(variant)) ELSE Spare(1)
    IN  /\ IsTicket /\ product.event
        /\ \E s \in Slots : variant[s].row = "none"                        \* model bound
        /\ variant' = [variant EXCEPT ![row] = Row("active", NoCombo, TRUE)]
        /\ UNCHANGED <<product, options, images>>

\* Of a lot that sold nothing: a published event keeps one.
RemoveLot(s) ==
    /\ IsTicket /\ s \in Lots(variant)
    /\ IsPublished => Cardinality(Lots(variant)) > 1
    /\ variant' = [variant EXCEPT ![s].row = "archived", ![s].status = "inactive", ![s].lot = FALSE]
    /\ UNCHANGED <<product, options, images>>

-----------------------------------------------------------------------------
(* Its images *)

\* A confirmed upload, and what the worker makes of it.
Upload ==
    /\ Editable /\ images.ready + images.waiting < MaxImages
    /\ images' = [images EXCEPT !.waiting = @ + 1]
    /\ UNCHANGED <<product, variant, options>>
Rendered(ok) ==
    /\ images.waiting > 0
    /\ images' = [waiting |-> images.waiting - 1, ready |-> images.ready + (IF ok THEN 1 ELSE 0)]
    /\ UNCHANGED <<product, variant, options>>

\* `MediaService.delete`: a published product keeps an image that is ready.
DeleteImage ==
    /\ images.ready > 0 /\ (IsPublished => images.ready > 1)
    /\ images' = [images EXCEPT !.ready = @ - 1]
    /\ UNCHANGED <<product, variant, options>>

-----------------------------------------------------------------------------
CatalogInit ==
    /\ product = [status |-> "none", kind |-> "goods", price |-> 0, event |-> FALSE]
    /\ variant = [s \in Slots |-> NoRow]
    /\ options = {}
    /\ images = [ready |-> 0, waiting |-> 0]

CatalogNext ==
    \/ \E kind \in {"goods", "ticket"}, price \in 0..1 : Create(kind, price) \/ Update(kind, price)
    \/ Publish \/ Unpublish \/ PauseProduct \/ ResumeProduct \/ Archive
    \/ \E s \in Slots : \/ \E status \in {"active", "inactive"} : UpdateVariant(s, status)
                        \/ PauseVariant(s) \/ RemoveLot(s)
    \/ \E C \in SUBSET {Combos[i] : i \in 1..Len(Combos)} : SetOptions(C)
    \/ PutEvent \/ AddLot
    \/ Upload \/ (\E ok \in BOOLEAN : Rendered(ok)) \/ DeleteImage

CatalogSpec == CatalogInit /\ [][CatalogNext]_catalogVars

-----------------------------------------------------------------------------
\* A published product other than a ticket has something to sell and a picture of it, through any
\* sequence of changes of its variants, options, kind and images.
PublishedIsSellable ==
    IsPublished /\ product.kind # "ticket" => Sold(variant) # {} /\ images.ready > 0

\* The variants on the shelf are the matrix of the options, one for each combination: a variant
\* that is kept, revived or taken over never doubles another.
MatrixIsExact ==
    /\ product.kind # "ticket" /\ Editable =>
          {variant[s].combo : s \in Rows(variant)} = (IF options = {} THEN {NoCombo} ELSE options)
    /\ \A s, t \in Rows(variant) : s # t => \/ variant[s].combo # variant[t].combo
                                            \/ variant[s].combo = NoCombo /\ Lots(variant) # {}

-----------------------------------------------------------------------------
(* The promotion that ends when the stock does: a change of stock that takes a variant to zero      *)
(* emits `inventory.sold_out` (catalog/promotions), and a consumer of the outbox, later and in any   *)
(* order, reads every variant and stamps the product.  The panel edits in between.                  *)

\* `promo_variants`: those whose stock decides, a paused one included.
Counted_OwnPriceToo == {v \in Skus : sku[v].sellable}                      \* mutant
Counted == {v \in Skus : sku[v].sellable /\ ~sku[v].own}

\* `_check_sellout`: the option needs a promotion and a variant that may end it.
MayEnd(on) == on /\ Counted # {}

(* Stock *)

CrossedToZero(before, after) == before > 0 /\ after <= 0

\* A sale is paid, or a count finds less.
StockBecomes(v, level) ==
    /\ level # sku[v].onHand
    /\ sku' = [sku EXCEPT ![v].onHand = level]
    /\ IF CrossedToZero(sku[v].onHand, level)
       THEN announced' = announced \cup {v} /\ edited' = (edited /\ v \notin Counted)
       ELSE UNCHANGED <<announced, edited>>
    /\ UNCHANGED promo

-----------------------------------------------------------------------------
(* The panel and the calendar *)

\* `update_product`: any change of the promotion arms it again.
SetPromotion(on, ends, dates) ==
    /\ ends => MayEnd(on)
    /\ <<on, ends, dates>> # <<promo.on, promo.ends, promo.dates>>
    /\ promo' = [on |-> on, ends |-> ends, dates |-> dates, stamped |-> FALSE]
    /\ edited' = TRUE
    /\ UNCHANGED <<sku, announced>>

DatesPass ==
    /\ promo.dates # "over"
    /\ promo' = [promo EXCEPT !.dates = IF @ = "upcoming" THEN "running" ELSE "over"]
    /\ edited' = TRUE
    /\ UNCHANGED <<sku, announced>>

\* `update_variant`: its own price, and whether it is sold.
EditVariant(v, own, sellable) ==
    /\ <<own, sellable>> # <<sku[v].own, sku[v].sellable>>
    /\ sku' = [sku EXCEPT ![v].own = own, ![v].sellable = sellable]
    /\ edited' = TRUE
    /\ UNCHANGED <<promo, announced>>

-----------------------------------------------------------------------------
(* The consumer of the outbox *)

Runs == promo.on /\ promo.dates = "running"
AllSoldOut == Counted # {} /\ \A v \in Counted : sku[v].onHand <= 0

\* `end_promotion_on_sellout`, under the product's lock.
EndsPromotion(v) ==
    /\ v \in announced /\ announced' = announced \ {v}
    /\ IF ~sku[v].own /\ promo.ends /\ ~promo.stamped /\ Runs /\ AllSoldOut
       THEN promo' = [promo EXCEPT !.stamped = TRUE]
       ELSE UNCHANGED promo
    /\ UNCHANGED <<sku, edited>>

-----------------------------------------------------------------------------
SellOutInit ==
    /\ promo = [on |-> FALSE, ends |-> FALSE, dates |-> "upcoming", stamped |-> FALSE]
    /\ sku = [v \in Skus |-> [own |-> FALSE, sellable |-> TRUE, onHand |-> MaxStock]]
    /\ announced = {}
    /\ edited = TRUE

SellOutNext ==
    \/ \E v \in Skus : \/ \E level \in 0..MaxStock : StockBecomes(v, level)
                       \/ \E own, sellable \in BOOLEAN : EditVariant(v, own, sellable)
                       \/ EndsPromotion(v)
    \/ \E on, ends \in BOOLEAN, dates \in {"upcoming", "running", "over"} :
         SetPromotion(on, ends, dates)
    \/ DatesPass

SellOutSpec == SellOutInit /\ [][SellOutNext]_sellOutVars

-----------------------------------------------------------------------------
\* A promotion that ends with the stock has ended once every variant that counts is at zero and
\* every event was handled, in whatever order sales, receipts and events came: the consumer that
\* runs last sees them all at zero.  An edit after the last event is not noticed, and is excepted.
SellOutEndsPromotion ==
    announced = {} /\ ~edited /\ promo.ends /\ Runs /\ AllSoldOut => promo.stamped
=============================================================================
