------------------------------- MODULE MCWorkers -------------------------------
(***************************************************************************)
(* What must get somewhere by itself: couriers, shipments, payments and    *)
(* the inbox of payment notices.  They meet in the worker pool only, or    *)
(* assume of one another what their modules say (an order that goes by     *)
(* courier has no shipment; Payments has the notices in order), so a       *)
(* behaviour follows one of them, in focus, while the others rest where    *)
(* they start: every behaviour of each is there, their product is not.     *)
(***************************************************************************)
EXTENDS Courier

CONSTANTS Clerks,      \* who dispatches an order, at the same time
          Mishaps      \* bound: refusals, lost answers, crashes and slow requests of a dispatch

VARIABLES focus,
          sale, carrier, shipment, clerk, tracker, timeline,
          charge, recorded, seen, notice, handler,
          db, money, notices, call

S == INSTANCE Shipment WITH Modes <- {"one", "each"}, Stamped <- BOOLEAN, MaxFaults <- Mishaps,
                            order <- sale
I == INSTANCE WebhookInbox WITH Changes <- 2, Workers <- {1, 2}, MaxAttempts <- 2, MaxFaults <- 2,
                                row <- notice, worker <- handler

P == INSTANCE Payments WITH Payments <- {"p1"}, NoPayment <- "none", Jobs <- {"webhook", "expiry"},
                            ProviderMoves <- {"close"}, Surcharges <- {0}, Recoverable <- {TRUE},
                            MaxFaults <- 1, MaxChecks <- 1, MaxCancels <- 1, charge <- money

courierOnly == <<order, events, row, uber, caller, missed>>
shipmentOnly == <<sale, carrier, shipment, clerk, tracker, timeline>>
inboxOnly == <<charge, recorded, seen, notice, handler>>
paymentOnly == <<db, money, notices, call>>
workersVars == <<focus, faults, courierOnly, shipmentOnly, inboxOnly, paymentOnly>>

WorkersInit ==
    /\ focus \in {"courier", "shipment", "inbox", "payment"}
    /\ CourierInit /\ S!ShipmentInit /\ I!InboxInit /\ P!Init
    /\ focus # "shipment" => carrier.mode = "one" /\ carrier.stamped

WorkersNext ==
    /\ UNCHANGED focus
    /\ \/ focus = "courier" /\ CourierNext /\ UNCHANGED <<shipmentOnly, inboxOnly, paymentOnly>>
       \/ focus = "shipment" /\ S!ShipmentNext /\ UNCHANGED <<courierOnly, inboxOnly, paymentOnly>>
       \/ focus = "inbox" /\ I!InboxNext /\ UNCHANGED <<courierOnly, shipmentOnly, paymentOnly>>
       \/ focus = "payment" /\ P!Next /\ UNCHANGED <<courierOnly, shipmentOnly, inboxOnly>>

WorkersSpec == WorkersInit /\ [][WorkersNext]_workersVars

-----------------------------------------------------------------------------
(* Properties *)

\* A request for a courier, or to cancel one, is answered (courier/service, sweep).
CourierAnswers == focus = "courier" /\ CourierFair => RequestAnswered

\* A retry buys the labels that are missing only (shipping/dispatch).
LabelsBoughtOnce == S!LabelsBoughtOnce
\* Once every volume arrived the order is closed by itself (shipping/jobs).
DeliveredClosesOrder == focus = "shipment" /\ S!ShipmentFair => S!DeliveredClosesOrder

\* A notice of a charge we know leads to our payment knowing the change (payments/webhooks).
NoticeIsHeard == focus = "inbox" /\ I!InboxFair => I!NoticeIsHeard

\* An order does not await payment for ever (payments/jobs, orders/jobs).
OrderSettles == focus = "payment" /\ P!PayFair => P!OrderSettles
\* Money at the provider is noticed when no call is lost (payments/service).
PaidMoneyIsNoticed == focus = "payment" /\ P!PayFair => P!PaidMoneyIsNoticed
=============================================================================
