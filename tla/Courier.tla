-------------------------------- MODULE Courier --------------------------------
(***************************************************************************)
(* A courier called for one ready order (CourierService).  A row is        *)
(* reserved under the order's lock; a worker claims it, commits, and talks *)
(* to Uber with nothing locked: it looks for the courier of an earlier     *)
(* quote, quotes, stores the quote, creates, and records the answer if the *)
(* claim is still its own.  Meanwhile the order or the row may be          *)
(* cancelled, the lease may end, and a second worker may work on the row.  *)
(*                                                                         *)
(* A row's quote is named by the attempt that asked for it.                *)
(***************************************************************************)
EXTENDS Integers, FiniteSets

CONSTANTS MaxRows,      \* attempts to get a courier for the order (model bound)
          Workers,      \* sweeps and panel requests that talk to Uber
          Fees,         \* what Uber may ask
          Cap,          \* max_fee_cents of the store
          MaxAttempts,
          MaxFaults     \* errors, lost answers, dead or slow workers (model bound)

ASSUME CourierAssumption ==
    /\ MaxRows \in Nat /\ MaxAttempts \in Nat /\ MaxFaults \in Nat
    /\ Cap \in Nat /\ Fees \subseteq Nat

VARIABLES order,   \* its status
          events,  \* of the order, in the outbox and not delivered yet
          row,     \* courier_deliveries; `id` is provider_delivery_id, "none" or "del"
          uber,    \* the courier Uber made for each row's idempotency key
          caller,  \* what each worker carries outside its transaction
          missed,  \* rows whose cancel found no courier while a call of theirs had, or could make, one
          faults

courierVars == <<order, events, row, uber, caller, missed, faults>>
Rows == 1..MaxRows

OPEN == {"requested", "creating", "awaiting_confirmation", "active", "cancelling"}
CLOSED == {"delivered", "failed", "cancelled"}
Live == {"pending", "picked"}

Free == [row |-> 0, claim |-> 0, task |-> "none", at |-> "none", quote |-> 0, id |-> "none",
         cap |-> 0, fee |-> 0, answer |-> "none"]
Open == {r \in Rows : row[r].status \in OPEN}
Due(r) == row[r].next = "now"
Spend == faults < MaxFaults /\ faults' = faults + 1
Go(w, at) == caller' = [caller EXCEPT ![w] = [@ EXCEPT !.at = at]]
Answer(w, a) == caller' = [caller EXCEPT ![w] = [@ EXCEPT !.at = "record", !.answer = a]]

-----------------------------------------------------------------------------
(* The order *)

OrderMoves(target) ==
    /\ \/ order = "in_production" /\ target = "ready_for_pickup"
       \/ order = "ready_for_pickup" /\ target = "shipped"
       \/ order \in {"ready_for_pickup", "shipped"} /\ target = "delivered"
       \/ order # "delivered" /\ order # "cancelled" /\ target = "cancelled"
    /\ order' = target
    /\ events' = IF target \in {"ready_for_pickup", "cancelled"} THEN events \cup {target} ELSE events
    /\ UNCHANGED <<row, uber, caller, missed, faults>>

-----------------------------------------------------------------------------
(* Requests, each under the order's or the row's lock *)

Reserve(r) ==
    /\ order = "ready_for_pickup" /\ Open = {}
    /\ row[r].status = "none" /\ (r > 1 => row[r - 1].status # "none")
    /\ row' = [row EXCEPT ![r] = [@ EXCEPT !.status = "requested", !.next = "now"]]

RequestCourier(r) == Reserve(r) /\ UNCHANGED <<order, events, uber, caller, missed, faults>>

ConfirmFee(r) ==
    /\ row[r].status = "awaiting_confirmation"
    /\ row' = [row EXCEPT ![r] = [@ EXCEPT !.status = "requested", !.next = "now", !.cap = row[r].quoted]]
    /\ UNCHANGED <<order, events, uber, caller, missed, faults>>

\* What cannot exist at Uber closes here.
ClosesHere(r) ==
    /\ row[r].status \in {"requested", "awaiting_confirmation"}
    /\ row[r].quote = 0 /\ row[r].id = "none"
Cancelled(r) ==
    row' = [row EXCEPT ![r] =
        IF ClosesHere(r) THEN [@ EXCEPT !.status = "cancelled", !.next = "never"]
        ELSE IF @.status # "cancelling" THEN [@ EXCEPT !.status = "cancelling", !.next = "now"]
        ELSE @]

RequestCancel(r) ==
    /\ r \in Open /\ row[r].attempts <= MaxAttempts
    /\ Cancelled(r)
    /\ UNCHANGED <<order, events, uber, caller, missed, faults>>

\* `courier_on_order`.
Consume(e) ==
    /\ e \in events /\ events' = events \ {e}
    /\ \/ e = "cancelled" /\ \E r \in Open : Cancelled(r)
       \/ e = "ready_for_pickup" /\ \E r \in Rows : Reserve(r)
       \/ /\ e = "cancelled" => Open = {}
          /\ e = "ready_for_pickup" => Open # {} \/ order # "ready_for_pickup"
          /\ UNCHANGED row
    /\ UNCHANGED <<order, uber, caller, missed, faults>>

WebhookHint(r) ==
    /\ row[r].status = "active" /\ row[r].id = "del" /\ ~Due(r)
    /\ row' = [row EXCEPT ![r] = [@ EXCEPT !.next = "now"]]
    /\ UNCHANGED <<order, events, uber, caller, missed, faults>>

-----------------------------------------------------------------------------
(* A worker's first transaction *)

Later_Never == "never"            \* mutant: the lease has no end
Later == "later"

Takes(w, r, task, at) ==
    caller' = [caller EXCEPT ![w] = [Free EXCEPT !.row = r, !.claim = row'[r].attempts, !.task = task,
                  !.at = at, !.quote = row[r].quote, !.id = row[r].id, !.cap = row[r].cap]]

\* `_dispatch`: the order is read without its lock.
StartDispatch(w, r) ==
    /\ caller[w] = Free /\ Due(r) /\ row[r].status \in {"requested", "creating"}
    /\ IF order = "ready_for_pickup"
       THEN /\ row' = [row EXCEPT ![r] = [@ EXCEPT !.status = "creating",
                                               !.attempts = row[r].attempts + 1, !.next = Later]]
            /\ Takes(w, r, "dispatch", IF row[r].quote # 0 THEN "find" ELSE "quote")
       ELSE /\ row' = [row EXCEPT ![r] = [@ EXCEPT !.status = "cancelled", !.next = "never"]]
            /\ UNCHANGED caller
    /\ UNCHANGED <<order, events, uber, missed, faults>>

\* `_claim` finds what Uber needs missing: no keys, no phone, no address.
CannotCall(r) ==
    /\ Due(r) /\ row[r].status \in {"requested", "creating"} /\ order = "ready_for_pickup"
    /\ Spend
    /\ row' = [row EXCEPT ![r] = [@ EXCEPT !.status = "failed", !.next = "never"]]
    /\ UNCHANGED <<order, events, uber, caller, missed>>

StartTrack(w, r) ==
    /\ caller[w] = Free /\ row[r].status = "active"      \* due, or the panel's refresh
    /\ Due(r) \/ row[r].next = "never"
    /\ row' = [row EXCEPT ![r] = [@ EXCEPT !.next = "later"]]
    /\ Takes(w, r, "track", "ask")
    /\ UNCHANGED <<order, events, uber, missed, faults>>

StartCancel(w, r) ==
    /\ caller[w] = Free /\ Due(r) /\ row[r].status = "cancelling"
    /\ row' = [row EXCEPT ![r] = [@ EXCEPT !.attempts = row[r].attempts + 1, !.next = Later]]
    /\ Takes(w, r, "cancel", "ask")
    /\ UNCHANGED <<order, events, uber, missed, faults>>

-----------------------------------------------------------------------------
(* Uber, with nothing locked *)

Fails(w) == Spend /\ \E a \in {"error", "refused"} : Answer(w, a)

\* `_adopt` of the quote an earlier attempt stored.
Find(w) ==
    LET r == caller[w].row
    IN  /\ caller[w].at = "find"
        /\ \/ /\ UNCHANGED faults
              /\ IF uber[r].state # "none" /\ uber[r].quote = caller[w].quote
                 THEN Answer(w, uber[r].state)
                 ELSE Go(w, "quote")
           \/ Fails(w)
        /\ UNCHANGED <<order, events, row, uber, missed>>

TooDear(fee, cap) == fee > cap
Quote(w) ==
    LET r == caller[w].row
    IN  /\ caller[w].at = "quote"
        /\ \/ /\ UNCHANGED faults
              /\ \E fee \in Fees :
                    caller' = [caller EXCEPT ![w] = [@ EXCEPT !.fee = fee,
                        !.at = IF TooDear(fee, caller[w].cap) THEN "record" ELSE "remember",
                        !.answer = IF TooDear(fee, caller[w].cap) THEN "over" ELSE "none"]]
           \/ Fails(w)
        /\ UNCHANGED <<order, events, row, uber, missed>>

StillMine(w) == row[caller[w].row].status = "creating" /\ row[caller[w].row].attempts = caller[w].claim

\* `_remember_quote`, a transaction of its own.
Remember(w) ==
    /\ caller[w].at = "remember"
    /\ IF StillMine(w)
       THEN row' = [row EXCEPT ![caller[w].row] = [@ EXCEPT !.quote = caller[w].claim]] /\ Go(w, "create")
       ELSE Answer(w, "error") /\ UNCHANGED row
    /\ UNCHANGED <<order, events, uber, missed, faults>>

\* One courier for a key, for ever: a second one is refused (409).
Create(w) ==
    LET r == caller[w].row
    IN  /\ caller[w].at = "create"
        /\ \/ /\ uber[r].state = "none"
              /\ uber' = [uber EXCEPT ![r] = [state |-> "pending", quote |-> caller[w].claim,
                                              fee |-> caller[w].fee]]
              /\ \/ Answer(w, "pending") /\ UNCHANGED faults
                 \/ Answer(w, "error") /\ Spend
           \/ uber[r].state # "none" /\ Answer(w, "refused") /\ UNCHANGED <<uber, faults>>
           \/ Fails(w) /\ UNCHANGED uber
        /\ UNCHANGED <<order, events, row, missed>>

AskTrack(w) ==
    /\ caller[w].task = "track" /\ caller[w].at = "ask"
    /\ \/ Answer(w, uber[caller[w].row].state) /\ UNCHANGED faults
       \/ Spend /\ Answer(w, "error")
    /\ UNCHANGED <<order, events, row, uber, missed>>

\* The courier is looked for by the id or the quote the row had when the worker took it; one on
\* the way to the customer is not cancelled.
InCall(r) == \E w \in Workers : caller[w].row = r /\ caller[w].task = "dispatch"
AskCancel(w) ==
    LET r     == caller[w].row
        found == uber[r].state # "none" /\ (caller[w].id = "del" \/ caller[w].quote = uber[r].quote)
        lost  == Spend /\ Answer(w, "error")
    IN  /\ caller[w].task = "cancel" /\ caller[w].at = "ask"
        /\ \/ /\ ~found
              /\ Answer(w, "nothing") /\ UNCHANGED <<uber, faults>>
              /\ missed' = IF row[r].id = "del" \/ InCall(r) THEN missed \cup {r} ELSE missed
           \/ /\ found /\ uber[r].state = "pending"
              /\ uber' = [uber EXCEPT ![r] = [@ EXCEPT !.state = "canceled"]] /\ UNCHANGED missed
              /\ \/ Answer(w, "canceled") /\ UNCHANGED faults
                 \/ lost
           \/ /\ found /\ uber[r].state # "pending"
              /\ Answer(w, "refused") /\ UNCHANGED <<uber, missed, faults>>
           \/ lost /\ UNCHANGED <<uber, missed>>
        /\ UNCHANGED <<order, events, row>>

UberMoves(r) ==
    /\ \E s \in CASE uber[r].state = "pending" -> {"picked", "canceled"}
                  [] uber[r].state = "picked"  -> {"delivered", "returned"}
                  [] OTHER                     -> {} :
          uber' = [uber EXCEPT ![r] = [@ EXCEPT !.state = s]]
    /\ UNCHANGED <<order, events, row, caller, missed, faults>>

-----------------------------------------------------------------------------
(* A worker's last transaction *)

\* `_apply`.
Applied(old, s) ==
    LET closed(status) == [old EXCEPT !.status = status, !.next = "never", !.id = "del"]
    IN  CASE s = "delivered" -> closed("delivered")
          [] s = "canceled"  -> closed(IF old.status = "cancelling" THEN "cancelled" ELSE "failed")
          [] s = "returned"  -> closed("failed")
          [] OTHER -> IF old.status = "cancelling" THEN [old EXCEPT !.id = "del"]
                      ELSE [old EXCEPT !.status = "active", !.next = "later", !.id = "del"]

Deliveries == {"pending", "picked", "delivered", "canceled", "returned"}

\* `_record`.
RecordDispatch(w) ==
    LET r == caller[w].row
        a == caller[w].answer
    IN  /\ caller[w].task = "dispatch" /\ caller[w].at = "record"
        /\ row' = [row EXCEPT ![r] =
              IF @.status = "cancelling"
              THEN [@ EXCEPT !.id = IF a \in Deliveries THEN "del" ELSE row[r].id, !.next = "now"]
              ELSE IF ~StillMine(w) THEN @
              ELSE IF a \in Deliveries THEN Applied(@, a)
              ELSE IF a = "over"
              THEN [@ EXCEPT !.status = "awaiting_confirmation", !.next = "never",
                             !.quoted = caller[w].fee]
              ELSE IF a = "refused" \/ @.attempts >= MaxAttempts
              THEN [@ EXCEPT !.status = "failed", !.next = "never"]
              ELSE [@ EXCEPT !.status = "requested", !.next = "later"]]
        /\ caller' = [caller EXCEPT ![w] = Free]
        /\ UNCHANGED <<order, events, uber, missed, faults>>

OrderAfter(a) ==
    IF a = "delivered" /\ order \in {"ready_for_pickup", "shipped"} THEN "delivered"
    ELSE IF a = "picked" /\ order = "ready_for_pickup" THEN "shipped"
    ELSE order

\* `_track`: the order moves with what the courier did.
RecordTrack(w) ==
    LET r == caller[w].row
        a == caller[w].answer
    IN  /\ caller[w].task = "track" /\ caller[w].at = "record"
        /\ IF row[r].status = "active" /\ a \in Deliveries
           THEN /\ row' = [row EXCEPT ![r] = Applied(@, a)]
                /\ order' = OrderAfter(a)
           ELSE UNCHANGED <<row, order>>
        /\ caller' = [caller EXCEPT ![w] = Free]
        /\ UNCHANGED <<events, uber, missed, faults>>

AfterRefusal_Closes == "cancelled"      \* mutant
AfterRefusal == "active"       \* the courier goes on

\* `_finish_cancel`.
RecordCancel(w) ==
    LET r == caller[w].row
        a == caller[w].answer
    IN  /\ caller[w].task = "cancel" /\ caller[w].at = "record"
        /\ row' = [row EXCEPT ![r] =
              IF @.status # "cancelling" \/ @.attempts # caller[w].claim THEN @
              ELSE IF a = "canceled" THEN Applied(@, a)
              ELSE IF a = "nothing" THEN [@ EXCEPT !.status = "cancelled", !.next = "never"]
              ELSE IF a = "refused" \/ @.attempts >= MaxAttempts
              THEN [@ EXCEPT !.status = AfterRefusal, !.next = "never"]
              ELSE [@ EXCEPT !.next = "later"]]
        /\ caller' = [caller EXCEPT ![w] = Free]
        /\ UNCHANGED <<order, events, uber, missed, faults>>

Dies(w) ==
    /\ caller[w] # Free /\ Spend
    /\ caller' = [caller EXCEPT ![w] = Free]
    /\ UNCHANGED <<order, events, row, uber, missed>>

\* A lease, a backoff or the interval between two looks ends.
TimeComes(r) ==
    /\ row[r].next = "later"
    /\ IF \A w \in Workers : caller[w].row # r THEN UNCHANGED faults ELSE Spend
    /\ row' = [row EXCEPT ![r] = [@ EXCEPT !.next = "now"]]
    /\ UNCHANGED <<order, events, uber, caller, missed>>

-----------------------------------------------------------------------------
CourierInit ==
    /\ order = "in_production" /\ events = {} /\ missed = {} /\ faults = 0
    /\ row = [r \in Rows |-> [status |-> "none", next |-> "never", attempts |-> 0, quote |-> 0,
                              id |-> "none", cap |-> Cap, quoted |-> 0]]
    /\ uber = [r \in Rows |-> [state |-> "none", quote |-> 0, fee |-> 0]]
    /\ caller = [w \in Workers |-> Free]

Works(w) ==
    \/ \E r \in Rows : StartDispatch(w, r) \/ StartTrack(w, r) \/ StartCancel(w, r)
    \/ Find(w) \/ Quote(w) \/ Remember(w) \/ Create(w) \/ AskTrack(w) \/ AskCancel(w)
    \/ RecordDispatch(w) \/ RecordTrack(w) \/ RecordCancel(w)

CourierNext ==
    \/ \E target \in {"ready_for_pickup", "shipped", "delivered", "cancelled"} : OrderMoves(target)
    \/ \E e \in {"ready_for_pickup", "cancelled"} : Consume(e)
    \/ \E r \in Rows : \/ RequestCourier(r) \/ ConfirmFee(r) \/ RequestCancel(r) \/ WebhookHint(r)
                       \/ CannotCall(r) \/ UberMoves(r) \/ TimeComes(r)
    \/ \E w \in Workers : Works(w) \/ Dies(w)

CourierSpec == CourierInit /\ [][CourierNext]_courierVars

Sweeps(r) == \E w \in Workers : StartDispatch(w, r) \/ StartCancel(w, r)

\* The sweep runs every ten seconds and every call to Uber has a timeout.
CourierFair ==
    /\ \A r \in Rows : WF_courierVars(TimeComes(r)) /\ SF_courierVars(Sweeps(r))
    /\ \A w \in Workers : /\ WF_courierVars(Find(w) \/ Quote(w) \/ Remember(w) \/ Create(w))
                          /\ WF_courierVars(AskTrack(w) \/ AskCancel(w))
                          /\ WF_courierVars(RecordDispatch(w) \/ RecordTrack(w) \/ RecordCancel(w))

-----------------------------------------------------------------------------
\* A courier the store knows of is followed until it is done: whatever was asked, cancelled or
\* answered late meanwhile, its row does not close while it is on the way.
KnownCourierFollowed ==
    \A r \in Rows \ missed : row[r].id = "del" /\ uber[r].state \in Live => r \in Open

\* As long as no answer is lost, neither the cancel of a row nor that of its order leaves a
\* courier on the way that no open row knows of.
NoCourierLeft ==
    faults = 0 => \A r \in Rows \ missed : uber[r].state \in Live => r \in Open

\* No courier costs more than the store accepted: its ceiling, or the quote it confirmed.
FeeAccepted == \A r \in Rows : uber[r].state # "none" => uber[r].fee <= row[r].cap

\* No courier gets out of the store's hands: each one on the way has an open row, and its price.
\* Excepted is a row that a second worker cancelled with the courier's call in hand.
CourierInHand == KnownCourierFollowed /\ NoCourierLeft /\ FeeAccepted

\* What the cancel promises (`cancel`: what exists at Uber, or may exist, the worker cancels
\* there): without a single error, no courier comes to an order whose row says cancelled.
CancelReachesUber ==
    faults = 0 => \A r \in Rows : row[r].status = "cancelled" => uber[r].state \notin Live

\* A request is answered: the courier is called, the store is asked or told, the cancel is done
\* or refused.
RequestAnswered ==
    \A r \in Rows : row[r].status \in {"requested", "creating", "cancelling"}
        ~> row[r].status \in CLOSED \cup {"active", "awaiting_confirmation"}
=============================================================================
