------------------------------- MODULE Payments -------------------------------
(***************************************************************************)
(* How one order gets paid: the payments (PaymentService), the charges at  *)
(* the provider, the calls between them and the jobs that keep the two in  *)
(* agreement when answers are lost, late or stale.                         *)
(*                                                                         *)
(* `db` is the database.  A transaction locks the order and then the       *)
(* payment, so it is one step, a function of db.  No lock is held while    *)
(* the provider is asked: a call is sent, the provider handles it, and a   *)
(* later transaction applies the answer, whatever happened meanwhile.      *)
(***************************************************************************)
EXTENDS Naturals, Sequences, FiniteSets

CONSTANTS Payments,      \* payments the customer may start for the order
          NoPayment,     \* no payment
          Jobs,          \* jobs that run: "webhook", "reconcile", "expiry"
          ProviderMoves, \* what the provider does by itself: "close", "refund", "chargeback"
          Surcharges,    \* amounts a payment method may add to the order's total
          Recoverable,   \* may a failed order find its stock again: TRUE, FALSE or both
          MaxFaults,     \* lost calls and crashed workers (model bound)
          MaxChecks,     \* MAX_ACTIVE_CHECKS
          MaxCancels     \* MAX_CANCEL_ATTEMPTS

JobNames == {"webhook", "reconcile", "expiry"}

ASSUME PaymentsAssumption ==
    /\ IsFiniteSet(Payments) /\ NoPayment \notin Payments
    /\ Jobs \subseteq JobNames /\ JobNames \cap Payments = {}
    /\ ProviderMoves \subseteq {"close", "refund", "chargeback"}
    /\ Surcharges \subseteq Nat /\ 0 \in Surcharges
    /\ Recoverable \subseteq BOOLEAN /\ Recoverable # {}
    /\ MaxFaults \in Nat /\ MaxChecks \in Nat \ {0} /\ MaxCancels \in Nat \ {0}

VARIABLES db,       \* the order and its payments
          charge,   \* the provider's charge of each payment
          notices,  \* payments with a stored notice (webhook inbox row) to process
          call,     \* the provider call of each customer request and of each job
          faults    \* faults so far

payVars == <<db, charge, notices, call, faults>>

Charge == {"none", "open", "paid", "refused", "cancelled", "refunded", "charged_back"}

PaymentStatus == {"none", "pending", "approved", "rejected", "cancelled", "expired",
                  "refunded", "charged_back"}

\* `active`: active_order_id is set; `check`: next_check_at is set; `refund`: one was requested.
NoRow == [status |-> "none", id |-> FALSE, active |-> FALSE, check |-> FALSE, attempts |-> 0,
          amount |-> 0, refund |-> FALSE]

\* A request to start payment p runs as caller p, a job under its own name.
Callers == Payments \cup Jobs

Call(kind, p, stage, answer) == [kind |-> kind, pay |-> p, stage |-> stage, answer |-> answer]
Idle == Call("none", NoPayment, "idle", "none")

-----------------------------------------------------------------------------
(* payments/status.py *)

NextStatus(from) ==
    CASE from = "pending" -> {"approved", "rejected", "cancelled", "expired"}
      [] from \in {"rejected", "cancelled", "expired"} -> {"approved"}
      [] from = "approved" -> {"refunded", "charged_back"}
      [] OTHER -> {}
CanTransition_NoLate(from, to) ==                    \* mutant: what was closed stays closed
    from \in {"pending", "approved"} /\ to \in NextStatus(from)
CanTransition(from, to) == to \in NextStatus(from)

\* What a charge in state a says of the payment.
TargetOf(a) == CASE a \in {"none", "open"} -> "pending"
                 [] a = "paid"             -> "approved"
                 [] a = "refused"          -> "rejected"
                 [] OTHER                  -> a

-----------------------------------------------------------------------------
(* Transactions: what each does to the database d *)

Awaiting(d) == d.order.status = "awaiting_payment"
Active(d) == {p \in Payments : d.pay[p].active}

\* A payment that ends takes its surcharge out of the total while the order awaits payment.
ClearSurcharge_Never(d) == d            \* mutant
ClearSurcharge(d) == IF Awaiting(d) THEN [d EXCEPT !.order.surcharge = 0] ELSE d

\* `close_active_payment`: the provider-side cancel is left to reconciliation.
CloseActive(d, target) ==
    IF Active(d) = {} THEN d
    ELSE [ClearSurcharge(d) EXCEPT !.pay = [p \in Payments |->
             IF p \in Active(d)
             THEN [d.pay[p] EXCEPT !.status = target, !.active = FALSE,
                                   !.check = TRUE, !.attempts = 0]
             ELSE d.pay[p]]]

\* `_approved`: the money pays the order, brings a failed one back, or is given back.
Approved_TwicePaid(d, p, recover) ==    \* mutant: a second payment is taken for the first
    IF Awaiting(d) \/ (d.order.status \in {"failed", "confirmed"} /\ recover)
    THEN CloseActive([d EXCEPT !.order.status = "confirmed", !.order.paid = TRUE], "cancelled")
    ELSE [d EXCEPT !.pay[p].refund = TRUE]
Approved(d, p, recover) ==
    IF Awaiting(d) \/ (d.order.status = "failed" /\ ~d.order.paid /\ recover)
    THEN CloseActive([d EXCEPT !.order.status = "confirmed", !.order.paid = TRUE], "cancelled")
    ELSE [d EXCEPT !.pay[p].refund = TRUE]

Changes(d, p, a) ==
    TargetOf(a) # d.pay[p].status /\ CanTransition(d.pay[p].status, TargetOf(a))

\* `apply`: bring payment p to what the provider answered, never backwards.
Applied(d, p, a, recover) ==
    LET known  == IF a = "none" THEN d ELSE [d EXCEPT !.pay[p].id = TRUE]
        target == TargetOf(a)
        moved  == [known EXCEPT !.pay[p].status = target, !.pay[p].active = FALSE,
                                !.pay[p].check = FALSE]
    IN IF ~Changes(d, p, a) THEN known
       ELSE IF target = "approved"
            THEN Approved([moved EXCEPT !.approvals = Append(@, p)], p, recover)
            ELSE ClearSurcharge(moved)

\* `_extend_deadline`: the provider's window may outlast the order's deadline, up to a cap
\* (model bound: once).
DeadlineExtended(d, a, later) ==
    IF later /\ a # "none" /\ Awaiting(d) /\ ~d.order.extended
    THEN [d EXCEPT !.order.clock = "ahead", !.order.extended = TRUE]
    ELSE d

\* `_schedule`, after a check of p whose outcome is `failed` or not.
Scheduled(d, p, failed) ==
    LET tries == d.pay[p].attempts + 1
    IN CASE d.pay[p].status = "pending" ->
              [d EXCEPT !.pay[p].attempts = tries, !.pay[p].check = tries < MaxChecks]
         [] d.pay[p].status \in {"cancelled", "expired"} /\ failed ->
              [d EXCEPT !.pay[p].attempts = tries, !.pay[p].check = tries < MaxCancels]
         [] OTHER -> [d EXCEPT !.pay[p].check = FALSE]

\* `refundable_payment`: the earliest approved one that still is.
Refundable(d) ==
    LET still == {i \in DOMAIN d.approvals : d.pay[d.approvals[i]].status = "approved"}
    IN IF still = {} THEN {}
       ELSE {d.approvals[CHOOSE i \in still : \A j \in still : i <= j]}

\* `cancel_order` of a paid order; a payment already being refunded is NothingToRefund.
RefundAsked(d) ==
    [d EXCEPT !.pay = [p \in Payments |->
        IF p \in Refundable(d) THEN [d.pay[p] EXCEPT !.refund = TRUE] ELSE d.pay[p]]]

-----------------------------------------------------------------------------
(* The customer and the store *)

Sent(c, kind, p) == call' = [call EXCEPT ![c] = Call(kind, p, "sent", "none")]

\* `create`, first transaction: the row is durable before the provider is called.
Start(p, surcharge) ==
    /\ db.pay[p].status = "none"
    /\ Awaiting(db) /\ Active(db) = {}
    /\ db' = [db EXCEPT !.order.surcharge = surcharge,
                        !.pay[p] = [NoRow EXCEPT !.status = "pending", !.active = TRUE,
                                                 !.check = TRUE, !.amount = surcharge]]
    /\ Sent(p, "create", p)
    /\ UNCHANGED <<charge, notices, faults>>

\* The same request again (same Idempotency-Key): the provider never answered the first.
Retry(p) ==
    /\ call[p] = Idle
    /\ db.pay[p].status = "pending" /\ ~db.pay[p].id /\ db.pay[p].active /\ Awaiting(db)
    /\ faults > 0                                  \* model bound: only after a fault
    /\ Sent(p, "create", p)
    /\ UNCHANGED <<db, charge, notices, faults>>

\* `cancel_for_customer`: the customer gives up, to pay another way.
GiveUp(p) ==
    /\ db.pay[p].status = "pending"
    /\ db' = CloseActive(db, "cancelled")
    /\ UNCHANGED <<charge, notices, call, faults>>

\* `cancel_order`, by the customer or the store.
CancelOrder ==
    /\ db' = IF Awaiting(db)
             THEN CloseActive([db EXCEPT !.order.status = "cancelled"], "cancelled")
             ELSE RefundAsked([db EXCEPT !.order.status = "cancelled"])
    /\ db.order.status \in {"awaiting_payment", "confirmed"}
    /\ UNCHANGED <<charge, notices, call, faults>>

TimePasses ==
    /\ db.order.clock # "over"
    /\ db' = [db EXCEPT !.order.clock = IF @ = "ahead" THEN "due" ELSE "over"]
    /\ Awaiting(db)
    /\ UNCHANGED <<charge, notices, call, faults>>

-----------------------------------------------------------------------------
(* The provider.  Charges are idempotent by payment; every change is notified. *)

ChargeBecomes(p, state) ==
    /\ charge' = [charge EXCEPT ![p] = state]
    /\ notices' = IF "webhook" \in Jobs THEN notices \cup {p} ELSE notices

Answered(c, a) == call' = [call EXCEPT ![c].stage = "answered", ![c].answer = a]

Handle(c) ==
    LET p == call[c].pay
    IN /\ call[c].stage = "sent"
       /\ \/ /\ call[c].kind = "create" /\ charge[p] = "none"
             /\ \E a \in {"open", "paid", "refused"} : ChargeBecomes(p, a) /\ Answered(c, a)
          \/ /\ call[c].kind = "cancel" /\ charge[p] = "open"
             /\ ChargeBecomes(p, "cancelled") /\ Answered(c, "cancelled")
          \/ /\ ~(call[c].kind = "create" /\ charge[p] = "none")
             /\ ~(call[c].kind = "cancel" /\ charge[p] = "open")
             /\ Answered(c, charge[p])
             /\ UNCHANGED <<charge, notices>>
       /\ UNCHANGED <<db, faults>>

CustomerPays(p) ==
    /\ charge[p] = "open"
    /\ ChargeBecomes(p, "paid")
    /\ UNCHANGED <<db, call, faults>>

ProviderCloses(p) ==          \* the Pix code's own deadline
    /\ charge[p] = "open"
    /\ ChargeBecomes(p, "cancelled")
    /\ UNCHANGED <<db, call, faults>>

ChargedBack(p) ==
    /\ charge[p] = "paid" /\ db.pay[p].status = "approved"
    /\ ChargeBecomes(p, "charged_back")
    /\ UNCHANGED <<db, call, faults>>

\* RefundService.process and its record: two transactions around the provider's refund.
RefundAtProvider(p) ==
    /\ db.pay[p].refund /\ charge[p] = "paid"
    /\ ChargeBecomes(p, "refunded")
    /\ UNCHANGED <<db, call, faults>>

RefundRecorded(p) ==
    /\ db.pay[p].refund /\ charge[p] = "refunded" /\ db.pay[p].status = "approved"
    /\ db' = [db EXCEPT !.pay[p].status = "refunded"]
    /\ UNCHANGED <<charge, notices, call, faults>>

-----------------------------------------------------------------------------
(* Jobs: each asks the provider and applies the answer in a later transaction *)

\* webhooks.process: a notice only says "look again".  It names the charge by the provider's
\* id: when nobody knows it (the creation was not answered), the provider is asked whose it is.
ProcessNotice(p) ==
    /\ p \in notices /\ call["webhook"] = Idle
    /\ notices' = notices \ {p}
    /\ Sent("webhook", IF db.pay[p].id THEN "fetch" ELSE "lookup", p)
    /\ UNCHANGED <<db, charge, faults>>

\* reconcile: an open payment is asked about, one we closed is cancelled at the provider.
Reconcile(p) ==
    /\ db.pay[p].check /\ call["reconcile"] = Idle
    /\ Sent("reconcile", IF db.pay[p].status = "pending" THEN "fetch" ELSE "cancel", p)
    /\ UNCHANGED <<db, charge, notices, faults>>

\* expire_one: an order with an open payment asks the provider once more before it gives up.
ExpiryStarts ==
    /\ Awaiting(db) /\ db.order.clock # "ahead" /\ call["expiry"] = Idle
    /\ IF Active(db) = {}
       THEN call' = [call EXCEPT !["expiry"] = Call("fetch", NoPayment, "settled", "none")]
       ELSE \E p \in Active(db) : Sent("expiry", "fetch", p)
    /\ UNCHANGED <<db, charge, notices, faults>>

ExpiryDecides ==
    /\ "expiry" \in Jobs /\ call["expiry"].stage = "applied"
    /\ call' = [call EXCEPT !["expiry"] =
           IF Awaiting(db) /\ (Active(db) = {} \/ db.order.clock = "over")
           THEN [@ EXCEPT !.stage = "settled"] ELSE Idle]
    /\ UNCHANGED <<db, charge, notices, faults>>

Expired_WithoutLooking(d) ==            \* mutant: the order was paid after it was found due
    CloseActive([d EXCEPT !.order.status = "failed"], "expired")
Expired_OnlyUnclaimed(d) ==             \* mutant: an open payment keeps the order open
    IF Awaiting(d) /\ d.order.clock # "ahead" /\ Active(d) = {}
    THEN [d EXCEPT !.order.status = "failed"]
    ELSE d
Expired(d) ==
    IF Awaiting(d) /\ d.order.clock # "ahead"
    THEN CloseActive([d EXCEPT !.order.status = "failed"], "expired")
    ELSE d

ExpiryEnds ==
    /\ "expiry" \in Jobs /\ call["expiry"].stage = "settled"
    /\ db' = Expired(db)
    /\ call' = [call EXCEPT !["expiry"] = Idle]
    /\ UNCHANGED <<charge, notices, faults>>

-----------------------------------------------------------------------------
(* The answer is applied *)

Failed(c) == call[c].answer = "error"

\* What the caller does with its answer: `create`, `sync`, `_cancel_at_provider`.
AfterAnswer(c, recover, later) ==
    LET p == call[c].pay
    IN IF Failed(c) \/ (call[c].kind = "cancel" /\ call[c].answer = "none") THEN db
       ELSE Applied(DeadlineExtended(db, call[c].answer, later), p, call[c].answer, recover)

\* `process`: a notice is retried when the provider could not be asked about its payment, but
\* ignored when it could not be asked whose it is (`find_by_provider_id` finds nothing).
NoticesAfter(c) ==
    LET again == notices \cup {call[c].pay}
    IN IF c # "webhook" \/ ~Failed(c) THEN {notices}
       ELSE IF call[c].kind = "fetch" THEN {again} ELSE {notices, again}

Finish(c) ==
    /\ call[c].stage = "answered"
    /\ \E recover \in Recoverable,
          later \in IF "expiry" \in Jobs THEN BOOLEAN ELSE {FALSE} :   \* only that job looks
          LET applied == AfterAnswer(c, recover, later)
          IN db' = IF c = "reconcile" THEN Scheduled(applied, call[c].pay, Failed(c))
                                      ELSE applied
    /\ call' = [call EXCEPT ![c] = IF c = "expiry" THEN [@ EXCEPT !.stage = "applied"] ELSE Idle]
    /\ UNCHANGED <<charge, faults>>
    /\ notices' \in NoticesAfter(c)

Fault == faults < MaxFaults /\ faults' = faults + 1

\* A timeout or a lost answer, whether or not the provider acted on the call.
Lost(c) ==
    /\ Fault
    /\ call[c].stage \in {"sent", "answered"}
    /\ Answered(c, "error")
    /\ UNCHANGED <<db, charge, notices>>

\* The process dies: what it had in hand is gone; a claimed notice is processed again.
Crash(c) ==
    /\ Fault
    /\ call[c] # Idle
    /\ call' = [call EXCEPT ![c] = Idle]
    /\ notices' = IF c = "webhook" THEN notices \cup {call[c].pay} ELSE notices
    /\ UNCHANGED <<db, charge>>

-----------------------------------------------------------------------------
Init ==
    /\ db = [order |-> [status |-> "awaiting_payment", paid |-> FALSE, surcharge |-> 0,
                        clock |-> "ahead", extended |-> FALSE],
             pay |-> [p \in Payments |-> NoRow],
             approvals |-> <<>>]
    /\ charge = [p \in Payments |-> "none"]
    /\ notices = {}
    /\ call = [c \in Callers |-> Idle]
    /\ faults = 0

Next ==
    \/ \E p \in Payments :
         \/ \E surcharge \in Surcharges : Start(p, surcharge)
         \/ Retry(p) \/ GiveUp(p)
         \/ CustomerPays(p)
         \/ "close" \in ProviderMoves /\ ProviderCloses(p)
         \/ "chargeback" \in ProviderMoves /\ ChargedBack(p)
         \/ "refund" \in ProviderMoves /\ (RefundAtProvider(p) \/ RefundRecorded(p))
         \/ "webhook" \in Jobs /\ ProcessNotice(p)
         \/ "reconcile" \in Jobs /\ Reconcile(p)
    \/ CancelOrder
    \/ "expiry" \in Jobs /\ (TimePasses \/ ExpiryStarts)
    \/ ExpiryDecides \/ ExpiryEnds
    \/ \E c \in Callers : Handle(c) \/ Finish(c) \/ Lost(c) \/ Crash(c)

Spec == Init /\ [][Next]_payVars

\* The beat runs every job again and again, calls are bounded by a timeout, and time passes.
\* Nothing is assumed of the customer, the store's staff or the provider's own decisions.
PayFair ==
    /\ "expiry" \in Jobs => WF_payVars(TimePasses) /\ WF_payVars(ExpiryStarts)
    /\ WF_payVars(ExpiryDecides) /\ WF_payVars(ExpiryEnds)
    /\ \A c \in Callers : WF_payVars(Handle(c)) /\ WF_payVars(Finish(c))
    /\ \A p \in Payments :
          /\ "webhook" \in Jobs => WF_payVars(ProcessNotice(p))
          /\ "reconcile" \in Jobs => WF_payVars(Reconcile(p))

-----------------------------------------------------------------------------
Kept(d) == {p \in Payments : d.pay[p].status = "approved" /\ ~d.pay[p].refund}

\* What the order side and the customer's account see of all this.
Money == INSTANCE Settlement WITH
    order    <- db.order.status,
    kept     <- Kept(db),
    returned <- {p \in Payments : db.pay[p].refund}
MoneySettles == Money!SettlementSpec

\* The money of the order is kept once: an approved payment whose refund nobody asked for is
\* the one the confirmed order was paid with, and a confirmed order has such a payment (or
\* had it, before a chargeback).
MoneyKeptOnce ==
    /\ Cardinality(Kept(db)) <= 1
    /\ Kept(db) # {} => db.order.status = "confirmed"
    /\ db.order.status = "confirmed" =>
          \E p \in Payments : /\ db.pay[p].status \in {"approved", "charged_back"}
                              /\ ~db.pay[p].refund

\* The total an unpaid order shows has the surcharge of the payment it waits for, and none
\* when it waits for none: a dead attempt by card never makes the Pix dearer.
SurchargeIsOfOpenPayment ==
    Awaiting(db) =>
        db.order.surcharge = IF Active(db) = {} THEN 0
                             ELSE db.pay[CHOOSE p \in Active(db) : TRUE].amount

\* payments/cancellation.py: cancelling a paid order requests "a refund of what was paid" in
\* the same transaction.
CancelledIsRefunded == db.order.status = "cancelled" => Kept(db) = {}

\* An order does not await payment for ever, not even when its payment stays open at the
\* provider and its checks are used up.
OrderSettles == Awaiting(db) ~> ~Awaiting(db)

\* Money at the provider is noticed when no call is lost, also for a payment that was given up
\* or expired: it is approved, and then keeps an order or is refunded.
PaidMoneyIsNoticed ==
    \A p \in Payments :
        charge[p] = "paid" ~> \/ db.pay[p].status \in {"approved", "refunded", "charged_back"}
                              \/ faults > 0
=============================================================================
