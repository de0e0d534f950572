-------------------------------- MODULE MCJobs --------------------------------
(***************************************************************************)
(* What clocks, queues and jobs must bring to an end: an unpaid order, an  *)
(* event of the outbox, an e-mail, an uploaded image, a store that is      *)
(* bought, a host that is proven.  Where they meet, through the outbox     *)
(* and the catalog of stores, each assumes of the other what its module    *)
(* says, so a behaviour follows one of them, in focus, while the others    *)
(* rest where they start.                                                  *)
(***************************************************************************)
EXTENDS Notifications

CONSTANT Foci    \* those a run follows

VARIABLES focus, faults,
          onHand, reserved, res, manual, sales, events,
          status, type, fulfillment, paid, due, coupon, redemptions, ticket,
          event, delivery, processed, effects, queue, worker, retries,
          media, sent, tasks, renderer, published, sweep, strays,
          store, phase, touched,
          row, zone, checker, promoter

Purchases == {"p1", "p2"}
TheCourse == <<"payment_confirmed", "accepted", "shipped">>

O == INSTANCE Sales WITH Orders <- {"o1"}, Variants <- {"v1"}, MaxQty <- 2, MaxOnHand <- 2,
                         CustomerOf <- [o \in {"o1"} |-> "customer"],
                         OfferedTypes <- {"pickup", "delivery", "shipping", "none"},
                         SellsTickets <- TRUE, LoneTypes <- {}, MaxOpenOrders <- 2, MaxRedemptions <- 1, PerCustomer <- 1
E == INSTANCE Outbox WITH Consumers <- {"notifier"}, Workers <- {"w1", "w2"}, MaxAttempts <- 3,
                          MaxTasks <- 2, MaxFaults <- 1, MaxRetries <- 1
M == INSTANCE Media WITH Images <- {1, 2}, MaxForOwner <- 1, MaxAttempts <- 2, MaxFaults <- 1,
                         worker <- renderer
S == INSTANCE Stores WITH StoreIds <- {1, 2, 3}, MaxFaults <- 1, None <- "none",
                          Wants <- [p \in Purchases |-> [slug |-> "a", host |-> "h"]]
D == INSTANCE Domains WITH Hosts <- {"platform", "own"}, Platform <- "platform", NoHost <- "none",
                           Checkers <- {"job", "button"}, Promoters <- {"q1"}, MaxCustom <- 2,
                           MaxFailures <- 2, MaxFaults <- 1

orderOnly == <<onHand, reserved, res, manual, sales, events,
               status, type, fulfillment, paid, due, coupon, redemptions, ticket>>
eventOnly == <<event, delivery, processed, effects, queue, worker, retries>>
mediaOnly == <<media, sent, tasks, renderer, published, sweep, strays>>
storeOnly == <<store, phase, touched>>
domainOnly == <<row, zone, checker, promoter>>
jobsVars == <<focus, faults, orderOnly, eventOnly, mailVars, mediaOnly, storeOnly, domainOnly>>

JobsInit ==
    /\ focus \in Foci
    /\ O!SalesInit /\ E!OutboxInit /\ MailInit /\ M!MediaInit /\ S!StoresInit /\ D!DomainsInit
    /\ focus # "order" => onHand = [v \in {"v1"} |-> 1]
    /\ focus # "mail" => transport

JobsNext ==
    /\ UNCHANGED focus
    /\ \/ /\ focus = "order" /\ O!SalesNext
          /\ UNCHANGED <<faults, eventOnly, mailVars, mediaOnly, storeOnly, domainOnly>>
       \/ /\ focus = "event" /\ E!OutboxNext
          /\ UNCHANGED <<orderOnly, mailVars, mediaOnly, storeOnly, domainOnly>>
       \/ /\ focus = "mail" /\ MailNext
          /\ UNCHANGED <<faults, orderOnly, eventOnly, mediaOnly, storeOnly, domainOnly>>
       \/ /\ focus = "media" /\ M!MediaNext
          /\ UNCHANGED <<faults, orderOnly, eventOnly, mailVars, storeOnly, domainOnly>>
       \/ /\ focus = "store" /\ S!StoresNext
          /\ UNCHANGED <<orderOnly, eventOnly, mailVars, mediaOnly, domainOnly>>
       \/ /\ focus = "domain" /\ D!DomainsNext
          /\ UNCHANGED <<orderOnly, eventOnly, mailVars, mediaOnly, storeOnly>>

JobsSpec == JobsInit /\ [][JobsNext]_jobsVars

-----------------------------------------------------------------------------
\* An order does not wait for payment for ever (orders/service, expire).
UnpaidOrdersSettle == focus = "order" /\ O!SalesFair => O!UnpaidOrdersSettle
\* Every consumer handles the event, or its delivery reaches the dead letters (audit/outbox).
EventReachesConsumers == focus = "event" /\ E!OutboxFair => E!EventReachesConsumers
\* Where an order comes to rest the customer is written to (notifications/notifier, jobs).
RestIsTold == focus = "mail" /\ MailFair => RestingIsTold
\* An upload ends ready, failed or gone (media/service, sweep_stale_media).
UploadSettles == focus = "media" /\ M!MediaFair => M!UploadSettles
\* A purchase ends with its store, or with nothing held for it (provisioning/service).
PurchaseSettles == focus = "store" /\ S!StoresFair => S!PurchaseSettles
\* The edge follows the owner's DNS (tenancy/service, workers/tasks).
EdgeFollowsZone == focus = "domain" /\ D!DomainsFair => D!EdgeFollowsZone
=============================================================================
