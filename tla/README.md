# A TLA+ verification of mucommerce

mucommerce is a multi-tenant shop: a FastAPI backend (`src/apps/api-commerce/app`), Celery workers
driven by a beat, MariaDB under READ COMMITTED, a Next.js front end. This directory holds TLA+
specifications of the backend, translated from its source. TLC checks them on small instances; TLAPS
proves the theorems of section 4 for every value of the constants. Paths below are relative to
`src/apps/api-commerce/app`.

## 1. Inventory of the system

### How the parts interact

* An HTTP request, a provider's webhook or a Celery task calls one service operation in one database
  transaction. Where the code takes row locks (`SELECT ... FOR UPDATE`), what the locks cover is one
  atomic step in the models: `place` locks the cart, the coupon and the balances; every later
  operation locks the order, then the payment, then refund or coupon, then the balances, sorted.
* Where it takes none - the panel, sign-in, phones, addresses, the assistant - a request is split
  where READ COMMITTED lets another in: it reads, it writes what differs from what it read (the ORM's
  net change), it commits. Many hazards of section 5 come from there.
* No lock is held over a call to a payment provider, a courier, a carrier, a mail server, the DNS or a
  model: the row is made durable (often with a lease), the call is sent, and another transaction
  applies the answer to whatever the row is by then.
* Services tell other parts what happened by writing an event in the same transaction
  (`audit/outbox.py`); the relay turns it into one delivery per consumer and the workers run the
  consumers (mail, courier, promotion sell-out, media, landing, chatwoot).
* The beat (`workers/celery_app.py`) runs the relay (5 s), delivery retry (30 s), order expiry (60 s),
  webhook sweep (30 s), payment reconciliation (60 s), refund sweep (60 s), couriers (10 s), tracking
  (600 s), media sweep (120 s), mail (15 s), domain checks. Tasks are acknowledged late, so a task may
  run twice.

### Components

| component | state | what is hard | what makes it correct |
|---|---|---|---|
| inventory | balances, reservation rows, ledger | orders and panel on one balance; late recovery; a count below what is promised | rows, balances and ledger agree; shortfalls flagged; sell-outs announced |
| orders, their machine, coupons, tickets | order, redemptions, tickets | expiry, payment and cancel in any order | stock and coupon tell the order's story; no order waits for ever |
| payments, providers, their configuration | payments, charges at the provider, calls in flight, settings | stale, lost, late, misread answers; two payments | money kept once, noticed, and for an order that stands |
| refunds | refund rows and lines | leases, retries, parts of a line | never above what was paid or what a line was worth |
| payment webhooks | inbox rows | duplicates, leases, a provider that is down | every notice of a known charge is heard |
| outbox | events, deliveries, processed events | overlapping workers, lost tasks | handled exactly once; nothing lost |
| cart, pricing, checkout, idempotency | cart, prices, quotations, keys | tabs, edits and retries between the review and the click | what is placed is what was reviewed, once |
| fulfilment, shipping, packing, carriers | zones, plans, packages, labels | a plan older than the cart; a label paid and not heard of | every unit in one sound parcel; the freight shown is the freight kept; a label bought once |
| courier | courier rows, couriers at Uber | calls without a lock, cancel in flight | no courier out of the store's hands |
| catalogue, events, promotions | products, variants, lots | edits in any order, sales meanwhile | what is published can be sold; a promotion ends with the stock |
| storefront | pages, home, access | edits while pages are read; who may buy | nothing skipped, repeated, or sold behind a closed door |
| customers, identity | accounts, links, sessions, numbers, leads, addresses, staff | replays, resets, crossing requests | no session outlives what gave it; one of each |
| assistant | plans, codes, credentials, its sales | confirmations repeated or late; the customer's own cart | does what the owner read, sells at the price that was heard |
| tenancy, provisioning | stores, hosts, modules, settings | two systems, lost answers, DNS, crossing panels | a purchase settles; the edge follows the zone; settings fit together |
| media, landing, notifications, production | assets, proposals, e-mails, supplies | leases, quotas, sweeps | every job ends, quotas and books add up |
| core, api, web | none of their own | | |

`PROJECT.json` lists them file by file with what is modelled, and the hazards of the code at their
lines with the properties that would catch them.

## 2. Modules

| module | models |
|---|---|
| `Inventory` | `inventory/`, the sold-out event of `catalog/promotions.py` |
| `OrderMachine` | `orders/state_machine.py`, pure operators |
| `Sales`, `SalesProofs` | `orders/service.py`, `orders/jobs.py`, `coupons/`, `tickets/`; composes `Inventory` and `OrderMachine`; `SalesProofs` proves about the three |
| `Payments`, `Settlement`, `PaymentsProofs` | `payments/service.py`, `closing.py`, `status.py`, `cancellation.py`, the jobs, and the provider (external); `Settlement` is the abstract promise about the money of one order, which `Payments` implements by a refinement mapping |
| `Charges` | `payments/providers/`: Mercado Pago, InfinitePay and PagBank as seen by `payments/service.py` |
| `Settings` | `payments/config_service.py`, `registry.py`; `tenancy/modules.py` |
| `Refunds` | `orders/refund_lines.py`, `payments/refunds.py` |
| `WebhookInbox` | `payments/webhooks.py` |
| `Outbox` | `audit/outbox.py`, `workers/tasks.py` |
| `Notifications` | `notifications/` |
| `Checkout` | `pricing/`, `catalog/pricing.py`, `coupons/rules.py`, `fulfillment/`; `cart/`, `audit/idempotency.py`, `OrderService.place` |
| `Offers`, `Packing`, `Packages` | `shipping/service.py`, `plan.py`, `signing.py`; `shipping/packing/`; `shipping/packages.py`, `catalog/packing.py` |
| `Shipment`, `Labels` | `shipping/dispatch.py`, `jobs.py`; `shipping/providers/` |
| `Courier` | `courier/` |
| `Catalog`, `Lots`, `Vitrine` | `catalog/service.py`, `promotions.py`; `catalog/events.py`; `catalog/storefront.py`, `exposure.py`, `landing/resolver.py`, `customers/access.py` |
| `Landing`, `Media` | `landing/quota.py`, `generation.py`, `sweeper.py`, `drafts.py`; `media/` |
| `Supplies` | `production/` |
| `SignIn`, `StorePass`, `Phones`, `LeadGate`, `Addresses` | `customers/` |
| `Staff` | `identity/`, `ops_tenants.py`, `cli.py` |
| `Assistant`, `AgentSales` | `agent/`, `internal_agent.py`, `internal_agent_sales.py`; `Assistant` extends `OrderMachine` |
| `Stores`, `Domains` | `provisioning/`; `tenancy/service.py`, `dns.py` |
| `MC*` | instances for TLC |
| `StorefrontProofs`, `WorkersProofs`, `PeopleProofs`, `BackOfficeProofs` | proofs about the composites `MCStorefront`, `MCWorkers`, `MCPeople` and `MCBackOffice` and their components |

Operators named `<Definition>_<Something>` and marked *mutant* are plausible bugs of that definition.
Nothing uses them in the specification: replacing the definition by one of them must break a property,
which shows that the property looks at that part of the code.

**Composites.** `Sales` truly composes `Inventory` with the order, the coupon and the ticket: one
action does to all what the transaction does. `MCWorkers`, `MCJobs`, `MCStorefront`, `MCBackOffice`,
`MCPeople` and `MCPayments` put side by side modules that do not write each other's state, or that
assume of each other what the other's module says: a variable `focus` chooses at the start which
module a behaviour follows, and the others rest. Every behaviour of each is there, their product,
which would tell nothing more, is not. Liveness is then stated as *focus and fairness imply it*, the
fairness being that module's own.

### Notes on the modules: correspondence and abstractions

* **Inventory.** One action per method of `ReservationService`, plus `SellNow` (an order with nothing
  to pay) and `Adjust` (the panel's purchase, loss, return and count). `onHand`, `reserved` are the
  balance's columns, `res[o][v]` the reservation row, `sales` and `manual` the sums of the ledger,
  `events` the stock events announced. `recover` is all or nothing, `release` frees active rows only,
  `return_some` skips what already came back. Left out: low-stock levels, costs.
* **Sales.** One coupon, one ticket per order; prices left out. When a payment is approved is free
  here; `Payments` says when it may be.
* **Payments.** `db` is the database, and every transaction is one function of it, used wherever the
  code calls it. `call[c]` is the provider call a request or job is in the middle of: `Start` makes
  the row durable and sends, `Handle` is the provider, `Finish` applies the answer, `Lost` a call that
  ends in an error whether or not the provider acted, `Crash` a worker that dies. A call whose answer
  was lost is not acted on later than the loss; stock at recovery is a choice (`Recoverable`).
* **Charges.** Two charges on one page, and what each adapter's answer means before and after
  payment, cancellation and refund. Amounts are small numbers. Wire formats and signatures left out.
* **Refunds.** Request, approval, rejection, claim, send, record of three units in two lines with a
  discount that does not divide. That somebody else must approve is abstracted to a second step.
* **WebhookInbox.** A notice claimed with a lease, the provider asked, the outcome written. The purge
  of old rows is left out.
* **Outbox.** `deliver` is split where READ COMMITTED lets another transaction in; `Written` is the
  ORM's flush (a session writes the columns it changed and leaves the others). `Relay` and `Claim`
  commit first and send tasks after, so some may be lost. Left out: sequence numbers, backoff lengths.
* **Checkout.** The cart with its version and quotation, the whole price of its lines, the
  idempotency key of each attempt. Left out: slots, limits of lines and units, of open orders,
  consents, the phone, a tampered quotation, `allocate` (dead code).
* **Packing.** The engine's control: grid, blocks, first fit, shrinking, made boxes, giving up. Left
  out: own containers, the partition in groups, cost ranking, walls, tare and padding.
* **Offers.** Carriers' answers with cache, choice of the best plan, its signature and its use at
  checkout after the panel changed. **Packages.** Every operation of the panel, requests crossing.
* **Shipment, Labels.** Labels of an order in one piece or one by one; a label at the platform call by
  call (create, pay, confirm, discard, link), any answer lost.
* **Courier.** One order's rows at Uber: reserve, claim, quote, create, record, track, cancel, sweep, by
  the two workers of the pool (`infra/docker-stack.yml:154`). `missed` is of the model: the rows whose
  cancel looked at Uber and found nothing although a call of theirs had made, or could still make, a
  courier (section 5); the properties except those rows. Left out: an Uber account disconnected while a
  cancel is under way.
* **Catalog.** A product, its options, combinations and images, edited in any order and published.
  Texts, measures, categories and modifiers left out. **Lots.** Lots of an event with their stock,
  orders paid late. In `Catalog` too, with variables of its own: the
  sold-out event and its consumer against the panel's edits of the promotion.
  **Vitrine.** Pages by key, the home's blocks, the button, the cart of who has no access. Left out:
  the catalogue's flag, search, filters, event pages, page caps.
* **Landing, Media, Notifications.** A model's work, an image's processing and a template are one
  outcome; leases, quotas, sweeps, retries and publication are whole.
* **Supplies.** Lines of receipts and adjustments, locks in the order of the body, average cost.
  `consume` is left out: no endpoint calls it.
* **SignIn, StorePass, Phones, LeadGate, Addresses, Staff.** Requests as reading and
  writing steps; hashes, tokens and texts are values. The 30 days of a store pass are left out.
  `AdminUser.status` is never changed by the code, so inactive people are left out.
* **Settings.** The flags of modules with what they need; the payment providers, whose requests of the panel
  read, write and commit. The credentials test (its outcome is only shown) and the choice of methods are
  left out.
* **Assistant, AgentSales.** Plans with their signature, codes and credentials, and orders
  placed through the customer's cart. `heard` is what the conversation last quoted.
* **Stores, Domains.** The purchase as calls of the catalogue of stores whose answers may be lost; hosts
  whose DNS comes and goes.

## 3. Runs

| run | instance | shows |
|---|---|---|
| `sales` | 2 orders of one customer, up to 2 units of each, 2 on the shelf, one place of the coupon | balances, rows and ledger agree in every interleaving; shortfalls are flagged, sell-outs announced; the stock follows the order, the coupon counts its redemptions |
| `payments` | 2 payments; in turn: webhooks, surcharge, all the provider's moves, 1 fault; reconciliation and expiry; 2 charges on a page of three providers, 2 callers, 1 fault | the surcharge is the open payment's, money is kept once, `Settlement` is implemented, answers mean what they say |
| `outbox` | 2 consumers, 2 workers, 2 attempts, 1 waiting task, 1 fault, 1 retry | handled exactly once; a done event was handled by all |
| `workers` | 1 courier row, 2 workers, 1 fault; 2 volumes with 3 faults; 2 changes of a charge, 2 workers, 2 faults; 1 payment, 1 fault | couriers in hand and answered, labels bought once, deliveries close, notices heard, orders settle, paid money noticed |
| `storefront` | 1 cart, 2 requests with 1 key; every cart of two or three items in three packages; 3 products with pages of one; 2 services and 3 plans; 3 shipments | the order is the one reviewed, at its freight, once; windows are true; parcels, plan and label are kept |
| `people` | 2 crossing requests everywhere; 2 tabs, 2 sessions; 3 refresh tokens; 2 customers for a number; 3 addresses; 2 people of 2 accounts | no session outlives its right; one owner of each |
| `backoffice` | 3 units in 2 lines; 3 proposals, quota 2; 3 variants, 2 combinations; 2 lots; 2 supplies; 2 providers; 2 packages; 2 calls of the assistant | refunds add up, proposals are fair, the catalogue is sellable, books add up, promotions end, settings fit, the assistant keeps its word |
| `jobs` | 1 order of each kind of delivery; an event with 2 workers, 3 attempts, 1 fault; 3 status events, 2 senders; 2 images; 2 purchases of one slug and host; 2 hosts | each of these ends |
| `payments_cancelled`, `courier_crossed`, `domains_primary`, `packages_default` | as in their modules | disagreements, section 5 |

Why the bounds suffice. What the properties tell apart is a pair: two orders for one unit or one
coupon place, two payments of one order, two tasks of one delivery, two requests of a panel, two lots,
two hosts; each run has the pair, and every hazard that needs it occurs in it. The mutants confirm
it: each makes its property fail inside the same bounds, and every property of every run has one or
more. `MaxChecks = MaxCancels = 1` stand for 50 and 5, `MaxAttempts = 2` or 3 for 8, `MAX_ADDRESSES`
and `MaxPackages = 2` for 10 and 30: what matters is a value below, at and past the limit. One fault makes every single loss
possible at every place; where recovering from a fault is itself exposed to faults (labels,
shipments, the inbox) there are two or three. The courier has two workers and one fault there; its
properties were also checked with two faults, with three workers, and with two rows. In `sales`, orders of the kinds in `LoneTypes`, or with a ticket,
are followed alone: two at once differ from the others in no shared state. CHECK_DEADLOCK is FALSE
where a model stops because what it follows came to its end with its bounded faults, edits and
retries used up.

Fairness, each stated in its module and used in `workers` and `jobs` for that module's focus only:

* `SalesFair`: time passes and the expiry job runs each minute. `PayFair`: every job is on the beat
  and a call to the provider is bounded by a timeout, so it is answered or lost; nothing is assumed of
  the customer, of the staff, nor of what the provider decides by itself.
* `OutboxFair`: the beat relays and claims; a lease ends; a worker's task ends (`task_time_limit`); a
  waiting task is taken, which needs strong fairness because workers alternate between tasks, and holds
  because the queue is first in, first out.
* `CourierFair`, `InboxFair`, `MailFair`, `MediaFair`: leases and waits end, the sweep of the beat comes
  back, a worker's step ends; a due row is claimed under strong fairness, because the beat takes the
  oldest first. `ShipmentFair`: the tracking job starts every ten minutes and ends.
* `StoresFair`: the catalogue of stores repeats a call that was not answered, and the hourly sweep runs.
  `DomainsFair`: the two jobs look at every host again and again (strong: a host that flaps between
  states is still due), a check ends. Nothing is assumed of the DNS: the property speaks of a zone that
  stays as it is.

## 4. Proofs

`SalesProofs`, first part, from `InventoryAssumption` (finite orders and variants, natural bounds), proves
of `Inventory`, for every number of orders, variants and units:

* `TypeCorrect` the type invariant, strengthened (`SoundLine`): units came back only from lines sold;
* `ReservedCorrect`, `StockCorrect` the balances reserve what the active rows hold, and the shelf is
  what the ledger says. Each operation is first described by its *delta* on one order's units
  (`OrderMoves`, `StockMoves`); the counting lemmas (`UnitsOfOne`, `OthersSame`, `CountsMove`) turn a
  change of one order's rows into the same change of the sum over all orders;
* `ShortfallCorrect`, `SoldOutCorrect`, `RowsForward` the flag, the announcement and the rows' order.

`Outbox`, at its end, from `OutboxAssumption` (natural bounds), proves for every number of consumers and
workers, attempts, tasks, faults and retries:

* `HandledExactlyOnce` and `DoneMeansHandled`. The invariant `IInv` adds what the two need to be
  inductive: at most one worker has written a delivery it has not committed, and that delivery is not
  processed (`OneWriter`, the row lock with the unique key); a delivery that shows done is processed
  and a failing worker never writes done (`DoneIsProcessed`, which rests on what the ORM's flush leaves
  alone, lemma `WrittenRow`); a worker about to close the event has seen all others done
  (`SettlesLast`).

`SalesProofs`, second part, from the assumptions of `Sales` and `Inventory`, proves for every set of orders, customers
and variants and every limit of the coupon:

* `SalesUsesInventory` every step of `Sales` is a step of `Inventory` or leaves its variables alone. So
  what the first part says of the stock holds of the sales: `SalesReserved`, `SalesStock`.
* `StockFollows` the rows of an order are what its status says. `StockInv` adds who is marked as paid
  (`Marked`), without which a cancelled order could be either released or sold, and the statuses a row
  may have in each case (`Lines`). The machine's table is used through four lemmas about which moves
  it allows (`OperatorMoves`, `CancelSources`, `AfterPaidIsPaid`, `LinesOfStatus`).
* `CouponCorrect` the coupon's counter is the number of its active redemptions: `CouponInv` adds that
  an order redeems once, while it awaits payment or later.

`PaymentsProofs`, from the assumption of `Payments`, proves for every set of payments, jobs and amounts,
and any number of faults, retries and notices:

* `PaymentsTypeCorrect`, `SurchargeCorrect` the surcharge an order shows is that of the payment it waits
  for, or none.
* `PaidOnce` at most one payment's money is kept, and a confirmed order has an approved (or charged
  back) payment that nobody asked to refund, whatever the shelf gives back.
* `MoneyKept`, when what was paid late can be recovered (`Recoverable = {TRUE}`, the value of the run
  `payments`): the run's stronger property, which also speaks of cancelled orders. With
  `Recoverable = {TRUE, FALSE}` it is false, and the run `payments_cancelled` shows where: see the findings.
* `MoneySettlesHolds`, the refinement: under the same condition every step maps to a step of `Settlement` or
  a stutter.

  The invariant `IInv` speaks of the database alone but for `CallOK` and `RefundsWereAsked`: one
  payment is open at a time, only while the order awaits payment (`OpenIsOne`), the payments that are
  the order's own are at most one and none before it is paid (`OursIsOne`), and the first approval is the
  one that paid (`FirstPays`). Since each transaction is one function of the database, each function gets
  one lemma (`CloseIsSound`, `ApprovedIsSound`, `AppliedIsSound`, ...) and the actions only combine them.
  The provider side (`Side`) needs that a refund of the provider was asked for, because a notice may
  tell of it at any later time, and that a worker which dies leaves no call without a payment.

* `ChargesAreRead`, from `ChargesAssumption` (a natural bound), for every set of callers, providers and
  number of charges and mishaps: an approval is money, a charge pays one payment of its amount, and a
  refund gives back no more than was asked. The invariant (`ChargeInv`) says of an answer in hand what it
  may say of the payment it is about (`AnswerOK`): the charge it speaks of is that payment's, except at
  InfinitePay, where a hint may be of another purchase; there a charge approves whoever takes its id
  first, so that every payment's id is its own (`IdsAreOwn`) and the id is the charge that paid (`PayOK`). The
  charge found by reference is the lowest of a set, which exists because the naturals are well founded
  (`LeastOf`).

`StorefrontProofs` proves for every shop, cart, set of requests and keys, and whatever is edited in
between, without assuming anything of prices or quotations:

* `OrderReviewed`, `FreightQuoted`, `RetryFinds`, and `CartIsSoldOnce`: a cart gives one order. `CInv`
  adds that who looks at a version of the cart looks at its lines (`ScreensAreFresh`: a stale page has
  an older version), that an active cart has no order (`OneOrder`), and that a request answered
  *converted* lost to one with another key (`ConvertedForAnother`), which is why its retry may not
  find an order and any other must.
* `LabelPaidOnce`, for every number of shipments and lost answers: at Frenet nothing is paid before the
  request pays, or once it has read that it was not, and nothing ever but its own shipment (`FrenetInv`).

Every step of `MCStorefront` is a step of the checkout or leaves it alone (`StorefrontParts`), so that all this
holds of the composite (`StorefrontChecksOut`).

`WorkersProofs` proves of the composite `MCWorkers`, for every number of rows, workers, clerks, prices, attempts and
faults:

* `CourierStaysInHand`, from `CourierAssumption` (natural bounds): a courier the store knows of has an open row until it is done; while there was no
  fault, so has every other; and none costs more than the store accepted. The rows in `missed` are
  excepted, and the run `courier_crossed` shows why they must be. The invariant is said of one row
  (`RowInv`): each call and each cancel has a claim of its own, and who claimed last for a cancel finds
  the row so (`ClaimsAt`); the ceiling a worker read is never above the row's (`FeesAt`); an answer in
  hand that speaks of an end is still true, because ends are for ever (`TruthsAt`); a cancel about to close
  a row over *nothing* is right or the row is marked (`NothingAt`); without a fault one call at a time has
  the row and knows the courier it made (`UndisturbedAt`). Each action is first put as what it does field by field,
  so that the six parts follow without the types, and the rows it does not touch keep theirs by one
  lemma (`StillHolds`).
* `LabelsAreBoughtOnce`, for one dispatch at a time (`OneAtATime`; two at once may buy twice, section 5), with
  one label or one each, whatever fails: a label not lost is in the row or in the hands of the dispatch
  (`Counted`), which begins knowing what the row says, or in one piece with nothing bought
  (`KnowsEach`, `KnowsOne`, `NotDone`).
  A step of any other focus leaves the shipment alone (`PoolStep`).

`PeopleProofs`, from `PeopleAssumption` (a natural bound, and a mark that is no account), proves of the composite
`MCPeople`, for every number of requests that cross, sessions, links, tokens, visitors, customers, numbers, leads,
addresses and people:

* `SessionsEndCorrect`, `OneOfEachCorrect`. Each component has an invariant of its own, and a step of the composite
  moves one of them (`DoorStep`, `RegisterStep`). What is common to them is what a request in flight
  still knows, long after the lock or the read that told it:
  * signing in: a session was opened by a link, a handoff or an entry that is spent since, and by no other
    session (`SignInInv`), so what closes it cannot be opened again;
  * a closed store: the caches are what is stored or older, and who is about to write read what is stored unless
    another wrote since (`PassInv`); then a pass of the version of now is for the password of now;
  * refresh tokens: a sign-in is named by its first token and of one person; after a replay only what was rotated
    by who had read its token before is alive (`TokenInv`);
  * numbers: a confirmation knows who has the number, a start has found no good link (`PhoneInv`);
  * leads: nobody who was seen with a number is forgotten (`LeadInv`), which rests on what putting somebody in
    front of a list keeps (`InFront`);
  * addresses: who has read the book knows it as it is (`AddressInv`); when the default goes the oldest
    that is left is the one (`OneIsGone`);
  * the owner: only the request that sets an owner makes one, and it knows the one to demote (`StaffInv`).

  Where the code takes no lock, the properties speak of requests that did not overlap, and so do the
  invariants; section 5 says what happens when they do.

`BackOfficeProofs`, from `BackOfficeAssumption` (finitely many rows for variants, of which the default one; natural
bounds; marks that are no row and no combination) and `RefundsAssumption` (an order of finitely many numbered
lines with some units each, natural cents, natural amounts and selections), proves of the composite
`MCBackOffice`, for every number of refunds, lines, variants, combinations, images, providers, packages,
proposals, requests, workers, plans, codes and orders:

* `RefundsAddUpCorrect`. Sums are folds, whose recursion is over data; the library's induction cannot be
  instantiated, so a set takes the operator's place: of the subsets for which a sum would be wrong a smallest is
  looked at (`MinimalSubset`), first to find that the sums exist at all (`SumsExist`), then that they do not
  depend on which member comes first (`SumOne`), are linear (`SumLinear`) and count (`SumCounts`). With
  them `FullLineSums`: as many lines get the cents that did not divide as there are such cents, because ranks
  in an order reach each number once (`RankedBelow`), so what the lines are worth is the pot to the cent.
  The invariant `RefundsInv` has three parts, said of the values so that steps compare them. The rows
  (`RowsInv`): what counts stays within the order, and what came back of a line was worth no more than its part pro rata
  (`Fits`), which is what leaves the last units something to take; it is stronger than the property and what
  `PiecesFit` keeps. The books (`BooksInv`): payment, order and provider agree on what is completed. The workers
  (`WorkersInv`): who holds a refund holds one that was asked for, and "completed" is said of money given
  back, so a late answer recorded over another's claim completes nothing twice.
* `SellOutEnds`. While the promotion runs unstamped and all that counts is at zero, the event of a variant that
  counts is still to be handled (`PromoInv`), unless something was edited since: the change that took the
  last one to zero announced it.
* `SettingsFitCorrect`. Modules: what a request was accepted for still is, unless another wrote
  (`ModulesInv`). Providers: a request that was not overtaken knows the row it is about to write, what it
  writes lacks nothing, and nobody with the mark is forgotten (`SetupInv`, `IsSound`). Packages: what a
  request has read is what is stored (`BoxInv`).
* `AssistantKeepsItsWordCorrect`. The code of a credential is spent (`LinksInv`). An order's version grows with
  each move, so that a plan that was carried out is of an older one; a balance about to be confirmed is
  as it was read, unless it moved (`AssistInv`). What the seller says of its orders is inductive as it
  stands (`SellerInv`), once it is known that who emptied a cart holds the items asked for.
* `CatalogIsSellableCorrect`. `CatalogInv` is about rows: those on the shelf have different combinations,
  and are those of the options. The work is in rebuilding the matrix (`SetOptions`): that kept,
  revived, taken-over and spare rows are different ones. A spare row is found by its rank among the free
  rows, and a new combination by its rank among the new (`RankedOne`): ranks tell the members of a
  finite set of numbers apart and reach each of them.
* `ProposalsAreFairCorrect`. What was charged is as much as the set of those in flight or shown
  (`ChargedOnce`, over cardinalities), a worker is alone at its proposal as long as nothing was slow
  (`AloneAtWork`), and what a publication will put back, the page with the proposal it was of, was
  consistent when it was put away (`PageIsIts`).

`Notifications` is small and has its theorem at its end:

* `MailIsSentOnce`, from `NotificationsAssumption` (finitely many workers), for every course of the order, number
  of workers and attempts, and events delivered in any order and any number of times. Each e-mail has a budget
  (`Budget`): the copies out, one for each sender whose call may still deliver or put the row back (`Owed`), and
  one if the row may be claimed as it is (`Claimable`), are at most one more than its mishaps. A claim
  turns what the row allowed into what the sender owes, only who owes puts the row back, and what a
  lost answer, a death or a lease outlived adds is a mishap of that e-mail.
Only model-checked: all liveness, because fairness and ENABLED are beyond the proof system; what
`Packing` (`ParcelsAreKept`) and the books of `Lots` and `Supplies` (`BooksAddUp`) add up
with folds over data; and, without a theorem yet, the windows (`WindowsAreTrue`, whose pages are a
library's sort of a set) and the offers of carriers.

## 5. Disagreements met while modelling

With a run of their own:

* `payments_cancelled`: two payments come after the order expired, the first is being refunded for
  lack of stock, the second brings the order back; cancelling now finds the first as the refundable
  payment, `NothingToRefund` is swallowed and the money of the second is kept.
* `courier_crossed`: "o que existe (ou pode existir) vira `cancelling` e o worker cancela na Uber"
  (`courier/service.py:270`). The call that creates the courier holds no lock, and with two workers the cancel
  may look at Uber before it arrives: it finds nothing, `_finish_cancel` closes the row
  (`courier/service.py:724`), and the courier made an instant later comes for a cancelled row, or for a
  cancelled order, and is paid. No error is needed.
* `domains_primary`: `set_primary_domain` locks the store's row so that two promotions leave one
  primary (`tenancy/service.py:547`), but `Tenant.domains` is loaded before the lock (`lazy="selectin"`)
  and the query after it returns the loaded objects; setting the old primary to ALIAS is then no
  change, no UPDATE is written, and `primary_domain` raises `MultipleResultsFound` afterwards.
* `packages_default`: the only active package, the default, may be archived and loses its mark; brought
  back, it is active and no package is the default, though `shipping/models.py:139` promises one.

Met with the models and without a run, the properties that exclude them being no part of the modules:

* **Coupons, tickets.** The coupon's place of an expired order may be given away before its late payment
  recovers it: N+1 orders at the price of N. A cancelled order's ticket is never set to refunded
  (`tickets/models.py:25`, `docs/adr/0020-ingresso-com-qr.md:149`) and is admitted. A late payment takes
  back the stock of a lot that was removed (`orders/service.py:286`).
* **Payments.** A payment given up while its `create` is in flight has its cancel sent before the charge
  exists; the answer schedules no other (`payments/service.py:551`). A check in flight when the payment
  is closed drops the cancel just scheduled (`:574`). A notice whose lookup by provider id fails is
  marked ignored instead of retried (`:509`). In each case the money itself is noticed, which is what
  `PaidMoneyIsNoticed` checks. A payment approved while another with a surcharge is open confirms the
  order with that surcharge in its total (`:411`).
* **Providers.** The hints of a page are "kept on the payment once the provider recognised the
  transaction" (`payments/service.py:458`) but never for PagBank, whose answer names the charge and whose
  payment holds the checkout: a charge heard of in analysis and paid later with its notice lost is not
  known. A second charge paid on the same page after the approval is never noticed; a payment first read
  as partially refunded stays open. `payment_methods` (`pagbank.py:46`) cannot be set by the panel.
* **Webhooks.** A late worker overwrites a PROCESSED row (`webhooks.py:175`). A notice of a charge not
  yet recorded is ignored for ever, and its redelivery is a duplicate.
* **Refunds.** After rejections a line can be over-refunded by a cent; the restock of a rejected item
  refund stays on the shelf; a refund marked failed after a lost answer may have been done.
* **Outbox.** Two consumers that finish side by side each count the other as unfinished; the event stays
  `dispatched` (`outbox.py:226`). A second task of a delivery that was handled meanwhile may fail at the
  last attempt and write `failed` over `done`; a task that loads a dead delivery and fails while the
  operator retries it writes the time away. Retrying a pending event hides it from the relay.
* **Notifications, media.** Two status events handled late both tell the current status; a late sender's
  failure overwrites SENT and the e-mail goes twice. The media sweep's FAILED is written on a row read
  unlocked.
* **Courier.** A refused cancel leaves a row active with no next attempt: nothing polls it. FAILED at the
  last attempt, or a lost create, may leave a live courier. A second quote overwrites the first and is
  then refused. `_dispatch` closes as cancelled when the order moved on, even if an earlier lost create
  left a courier. An adopted courier found delivered closes the row without the order.
* **Shipping.** Two clerks can buy two labels (`dispatch.py:3-7` says so). Melhor Envio's `ship` says its
  caller "guarda o id do provedor antes de seguir" (`melhorenvio.py:299`); the caller stores it after
  `ship` returns, so a label step that fails after the purchase makes a retry buy again; a Frenet create
  whose answer is lost leaves an unpaid shipment. Tracking events with the same stamp are lost. A quotation's cache key has neither the origin's
  state nor the account (old for 15 minutes at most). `make_default` crossing an archive leaves an archived
  default, and active packages without a default put products in made-to-measure boxes. What the engine
  shrinks or lays by the grid is not verified by `_fits`.
* **Checkout.** After a key's life, or with a stale lock, two requests can take the same key; the order's
  own hash keeps them to one order. Endpoints that commit midway are not covered by the key.
* **Catalogue.** Two concurrent moves can make a category its own ancestor or a third level
  (`catalog/service.py:863`). A product published and then turned into tickets needs no event; removing
  one of two lots may leave an event whose remaining lot is inactive. The home's button is untrue for a
  blocked customer of a public store, and one blocked in a closed store still gets the exposed products.
  `_place_loose` drops exposed products when the first block is full.
* **Landing.** Taking back a page after it was published again leaves a page whose proposal is not the
  applied one. A lost task leaves a proposal queued for ever. A generation past its ten minutes, or run
  twice, gives its unit back twice.
* **Supplies.** A count of zero is refused (`_check_lines`); a "loss" of a positive quantity adds. Lines
  are locked in the order of the body, so two requests may wait for each other and one is undone.
* **Sign-in, people.** A login whose password was read before a reset still opens a session after it; a
  signup link confirmed later overwrites a newer password. A refresh token presented twice at the same
  instant passes twice without alarm; a rotation crossing a replay survives it. Two crossing saves of the
  storefront's settings (written whole, `admin_modules.py:141`) can bring an old password version back;
  caches are emptied before the commit, so old values live up to 60 s.
* **Numbers, leads.** Two crossing confirmations leave a number with two customers; two crossing starts
  leave two live links ("Only the newest challenge of a customer is valid", `customers/phone.py`). Two
  messages at once make two leads. Taking a number's release back revokes one of several approved people;
  releasing a number one of whose customers is blocked leaves it unanswered.
* **Addresses, owner.** Two crossing creations leave two defaults or one address too many. Two crossing
  `set_owner` ("One owner per store", `ops_tenants.py:140`), or `cli admin grant --role owner`, leave two
  owners, and two later ones that cross may leave none. Two accounts crossing on one e-mail that has no
  account: the later takes the person.
* **Assistant.** A code redeemed twice at once gives two credentials ("uso único"). A movement of stock
  is confirmed against a balance read without a lock, so a change that crosses, or the same confirmation
  sent again after the balance came back, passes the signature. A repeated order message fails with
  `out_of_stock` once the stock is gone instead of returning its order
  (`internal_agent_sales.py:112`), and otherwise leaves the cart filled with the order's items. `clear`
  keeps the coupon and the delivery the customer chose, so the total differs from the one quoted and the
  order is refused until they are taken off.
* **Settings.** Two crossing saves can leave a provider enabled without what it needs (not offered:
  `options_for` looks again) or two defaults; two crossing switches a module on without the one it needs.
* **Stores, domains.** An old draft adopted by a retried purchase may be swept between `reserve` and
  `activate`; an operator who archives a draft makes `activate` answer 409. "Verify now" on an active host
  whose DNS fails takes it off the edge at once; a late check can bring back a disabled host; disabling a
  host while it is promoted leaves a disabled primary.

## 6. Not modelled

* **Consents** (`customers/legal.py`), **recipes and consumption** (`production/`), **chatwoot**,
  **categories, modifiers and tags**: rows that are added or edited one at a time, with no other state
  that has to agree.
* **What a landing page says**: prompts, palettes, blocks, design rules and their repair are text.
* **Wire formats, signatures, cryptography, rate limits, logging, configuration** (`core/`,
  `integrations/`, schemas), and the formatting of messages.
* **The web front end**: pages that call the API; nothing of theirs outlives a request.
* **The order of locks across operations.** A transaction is one step, so a cycle of waiting between two
  of them cannot be seen; the database undoes one and the request or the task is repeated. Where the code
  is known to lock in the order of its input (`Supplies`, `Settings`) the waiting is modelled.
* **Delivery slots, estimates without an address, event pages, search and filters.**

## 7. Keeping it

The models follow the code by definition: `PROJECT.json` maps each one to its lines (a helper whose lines
lie inside those of the definition that uses it has no row of its own). A change of the code there
should be followed here, then the run, then the mutant, then the proof. The most promising next
steps: the order of locks as a module of its own; slots and their capacity; theorems about the windows and
the offers of carriers, as there are about the checkout.
