-------------------------------- MODULE Refunds --------------------------------
(***************************************************************************)
(* The refunds of one paid order (RefundService): asked for by the store's *)
(* team or by policy, approved by a second person, sent to the provider by *)
(* a task or by the sweep under a lease, or done by hand and recorded.     *)
(*                                                                         *)
(* A request or a decision holds the order's and the payment's locks: one  *)
(* action.  Sending is three: the claim is committed, the provider is      *)
(* asked with nothing locked, and the answer is recorded, by then perhaps  *)
(* over another worker's claim.                                            *)
(*                                                                         *)
(* What giving back units is worth (orders/refund_lines): the coupon's     *)
(* discount is on the order, so a line is worth its part of the pot, not   *)
(* its price.  Cents that do not divide go to the lines with the largest   *)
(* remainders, and the last units of a line take what is left of it.  An   *)
(* order is a record: the lines' totals and units, discount, shipping.     *)
(***************************************************************************)
EXTENDS Integers, FiniteSetsExt

AtLeastZero(n) == IF n > 0 THEN n ELSE 0
Sum(f, X) == MapThenSumSet(LAMBDA x : f[x], X)

LinesOf(order) == DOMAIN order.total
Subtotal(order) == Sum(order.total, LinesOf(order))
Pot(order) == AtLeastZero(Subtotal(order) - order.discount)

\* `full_line_cents`: a line's share, what dividing left of it, and the lines that get a cent sooner.
Share(order) == [l \in LinesOf(order) |-> (Pot(order) * order.total[l]) \div Subtotal(order)]
Remainder(order) == [l \in LinesOf(order) |-> (Pot(order) * order.total[l]) % Subtotal(order)]
Sooner(order, l) ==
    {k \in LinesOf(order) : \/ Remainder(order)[k] > Remainder(order)[l]
                            \/ Remainder(order)[k] = Remainder(order)[l] /\ k < l}
Left(order) == Pot(order) - Sum(Share(order), LinesOf(order))
FullLine(order) ==
    [l \in LinesOf(order) |->
        IF Pot(order) = 0 THEN 0
        ELSE Share(order)[l] + (IF Cardinality(Sooner(order, l)) < Left(order) THEN 1 ELSE 0)]

\* `refund_plan`: done is what earlier refunds covered of each line.
Piece(order, done, l, wanted) ==
    LET rest  == order.units[l] - done[l].units
        used  == IF wanted < rest THEN wanted ELSE rest
        cents == IF used = rest THEN AtLeastZero(FullLine(order)[l] - done[l].cents)
                                ELSE (FullLine(order)[l] * used) \div order.units[l]
    IN  IF wanted > 0 /\ rest > 0 /\ cents > 0 THEN [units |-> used, cents |-> cents]
                                               ELSE [units |-> 0, cents |-> 0]

RefundPlan(order, selection, done) ==
    [l \in LinesOf(order) |-> Piece(order, done, l, selection[l])]

NoLines(order) == [l \in LinesOf(order) |-> [units |-> 0, cents |-> 0]]
PlanCents(plan) == Sum([l \in DOMAIN plan |-> plan[l].cents], DOMAIN plan)

-----------------------------------------------------------------------------
CONSTANTS MaxRefunds,   \* rows that may be created (model bound)
          Workers,      \* processes that send refunds
          Order,        \* the order: its lines' totals and units, discount, shipping
          Amounts,      \* amounts the team may type
          Selections,   \* units of each line the team may tick
          Methods,      \* "provider", "external": does the payment's provider refund by API
          Threshold,    \* refund_four_eyes_threshold_cents
          MaxAttempts,
          MaxFaults     \* lost answers, dead or slow workers, answers "pending" (model bound)

\* Lines in order, each of some units (CartService takes no line of none), cents, and what a person types.
ASSUME RefundsAssumption ==
    /\ LinesOf(Order) \subseteq Nat /\ IsFiniteSet(LinesOf(Order))
    /\ Order.total \in [LinesOf(Order) -> Nat] /\ Order.units \in [LinesOf(Order) -> Nat \ {0}]
    /\ Order.discount \in Nat /\ Order.shipping \in Nat
    /\ Amounts \subseteq Nat /\ Selections \subseteq [LinesOf(Order) -> Nat]
    /\ MaxRefunds \in Nat

VARIABLES payment,   \* the payment that paid it: status, method, refunded_cents
          returned,  \* the order's refunded_cents
          refund,    \* the rows
          sent,      \* what the provider made of each refund's idempotency key
          worker,    \* the refund a worker holds, the attempt it claimed, the provider's answer
          faults

Refunds == 1..MaxRefunds
NoRefund == 0
FullLineCents == FullLine(Order)

refundVars == <<payment, returned, refund, sent, worker, faults>>

RefundKind == {"customer_cancel", "operator", "late_payment"}      \* or a duplicate one
POLICY_KINDS == {"customer_cancel", "late_payment"}
ORDER_VALUE_KINDS == {"customer_cancel", "operator"}
COUNTED == {"requested", "approved", "processing", "completed"}
REFUNDABLE == {"approved", "partially_refunded"}

NextStatus(from) == CASE from = "approved" -> {"partially_refunded", "refunded", "chargeback"}
                      [] from = "partially_refunded" -> {"refunded", "chargeback"}
                      [] OTHER -> {}
Moved(status, target) == IF target \in NextStatus(status) THEN target ELSE status

-----------------------------------------------------------------------------
(* What was refunded so far *)

Paid == Pot(Order) + Order.shipping
In(statuses) == {r \in Refunds : refund[r].status \in statuses}
Cents(rs) == Sum([r \in Refunds |-> refund[r].amount], rs)

Remaining == Paid - Cents(In(COUNTED))

\* `lines_refunded`, `shipping_refunded`.
LinesRefunded(rs) ==
    [l \in LinesOf(Order) |->
        [units |-> Sum([r \in Refunds |-> refund[r].plan[l].units], rs),
         cents |-> Sum([r \in Refunds |-> refund[r].plan[l].cents], rs)]]
ShippingRefunded == Sum([r \in Refunds |-> refund[r].shipping], In(COUNTED))

-----------------------------------------------------------------------------
(* Requests and decisions *)

\* `request`, once the amount is known.
NewRefund(r, kind, amount, shipping, plan) ==
    LET second   == kind \notin POLICY_KINDS /\ amount > Threshold
    IN  /\ refund[r].status = "none" /\ (r > 1 => refund[r - 1].status # "none")
        /\ payment.status \in REFUNDABLE
        /\ amount > 0 /\ amount <= Remaining
        /\ refund' = [refund EXCEPT ![r] =
              [status |-> IF second THEN "requested" ELSE "approved", kind |-> kind,
               amount |-> amount, shipping |-> shipping, plan |-> plan,
               attempts |-> 0,
               next |-> IF ~second /\ payment.method = "provider" THEN "now" ELSE "never"]]
        /\ UNCHANGED <<payment, returned, sent, worker, faults>>

RequestAmount(r, amount) ==
    NewRefund(r, "operator", amount, 0, NoLines(Order))

\* Some units of some lines, with or without the shipping that has not come back yet.
RequestItems(r, selection, withShipping) ==
    LET plan     == RefundPlan(Order, selection, LinesRefunded(In(COUNTED)))
        shipping == IF withShipping THEN Order.shipping - ShippingRefunded ELSE 0
        chosen   == \E l \in LinesOf(Order) : selection[l] > 0
    IN  /\ withShipping => shipping > 0
        /\ chosen => \E l \in LinesOf(Order) : plan[l].units > 0
        /\ NewRefund(r, "operator", PlanCents(plan) + shipping, shipping, plan)


\* All that is left: the order is cancelled, or the payment came too late or twice.
RequestRest(r, kind) ==
    /\ kind = "customer_cancel" => \A x \in Refunds : refund[x].kind # kind
    /\ NewRefund(r, kind, Remaining, 0, NoLines(Order))

\* By somebody else than who asked.
Approve(r) ==
    /\ refund[r].status = "requested"
    /\ refund' = [refund EXCEPT ![r].status = "approved",
                       ![r].next = IF payment.method = "provider" THEN "now" ELSE "never"]
    /\ UNCHANGED <<payment, returned, sent, worker, faults>>

Reject(r) ==
    /\ refund[r].status = "requested"
    /\ refund' = [refund EXCEPT ![r].status = "rejected", ![r].next = "never"]
    /\ UNCHANGED <<payment, returned, sent, worker, faults>>

-----------------------------------------------------------------------------
(* Outcomes *)

\* `_completed`: the refund, the payment and the order, in one transaction.
Completed(r) ==
    LET back == payment.refunded + refund[r].amount
    IN  /\ refund' = [refund EXCEPT ![r].status = "completed", ![r].next = "never"]
        /\ payment' = [payment EXCEPT !.refunded = back,
                           !.status = Moved(@, IF back >= Paid THEN "refunded"
                                                               ELSE "partially_refunded")]
        /\ returned' = IF refund[r].kind \in ORDER_VALUE_KINDS
                       THEN returned + refund[r].amount ELSE returned

\* The store gave the money back in the provider's app and says how.
CompleteExternal(r) ==
    /\ payment.method = "external" /\ refund[r].status = "approved"
    /\ Completed(r)
    /\ UNCHANGED <<sent, worker, faults>>

-----------------------------------------------------------------------------
(* Sending *)

Rest(w) == worker' = [worker EXCEPT ![w] = [refund |-> NoRefund, claim |-> 0, answer |-> "none"]]
Holders(r) == {w \in Workers : worker[w].refund = r}

Claim(w, r) ==
    /\ worker[w].refund = NoRefund
    /\ payment.method = "provider"
    /\ refund[r].status \in {"approved", "processing"} /\ refund[r].next = "now"
    /\ refund' = [refund EXCEPT ![r].status = "processing", ![r].attempts = @ + 1,
                                ![r].next = "later"]
    /\ worker' = [worker EXCEPT ![w] = [refund |-> r, claim |-> refund[r].attempts + 1,
                                        answer |-> "waits"]]
    /\ UNCHANGED <<payment, returned, sent, faults>>

SentCents == Cents({r \in Refunds : sent[r] \in {"pending", "done"}})
DoneCents == Cents({r \in Refunds : sent[r] = "done"})

\* The provider takes a key once; it does not give back more than was paid.  Without an effect
\* the answer is an error; with one it is what became of the money, unless it is lost.
Answers == [no |-> {"error", "failed"}, pending |-> {"pending"}, done |-> {"completed"},
            refused |-> {"failed"}]
ProviderAnswers(w) ==
    LET r == worker[w].refund
    IN  /\ worker[w].answer = "waits"
        /\ \E s \in IF sent[r] # "no" THEN {sent[r]}
                    ELSE IF SentCents + refund[r].amount > Paid THEN {"no", "refused"}
                    ELSE {"no", "pending", "done", "refused"} :
           \E a \in Answers[s] \cup {"lost"} :
              /\ a \in {"lost", "pending"} => faults < MaxFaults
              /\ faults' = IF a \in {"lost", "pending"} THEN faults + 1 ELSE faults
              /\ sent' = [sent EXCEPT ![r] = s]
              /\ worker' = [worker EXCEPT ![w].answer = a]
        /\ UNCHANGED <<payment, returned, refund>>

\* What was pending is decided.
ProviderSettles(r) ==
    /\ sent[r] = "pending"
    /\ \E s \in {"done", "refused"} : sent' = [sent EXCEPT ![r] = s]
    /\ UNCHANGED <<payment, returned, refund, worker, faults>>

Answered(w) == worker[w].answer \notin {"none", "waits"}

StillMine_Anyway(w) == Answered(w)        \* mutant: the claim is not read again
StillMine(w) ==
    LET r == worker[w].refund
    IN  refund[r].status = "processing" /\ refund[r].attempts = worker[w].claim

\* `process` after the answer, under the order's, the payment's and the refund's locks.
Record(w) ==
    LET r == worker[w].refund
        a == worker[w].answer
        back(status, next) ==
            /\ refund' = [refund EXCEPT ![r].status = status, ![r].next = next]
            /\ UNCHANGED <<payment, returned>>
    IN  /\ Answered(w)
        /\ CASE ~StillMine(w)  -> UNCHANGED <<refund, payment, returned>>
             [] StillMine(w) /\ a = "completed" -> Completed(r)
             [] StillMine(w) /\ a = "pending"   -> back("approved", "later")
             [] StillMine(w) /\ a \in {"failed", "error", "lost"} ->
                    IF a = "failed" \/ refund[r].attempts >= MaxAttempts
                    THEN back("failed", "never")
                    ELSE back("approved", "later")
        /\ Rest(w)
        /\ UNCHANGED <<sent, faults>>

\* A worker dies with its call: the lease brings the refund back.
Dies(w) ==
    /\ worker[w].refund # NoRefund /\ faults < MaxFaults
    /\ faults' = faults + 1
    /\ Rest(w)
    /\ UNCHANGED <<payment, returned, refund, sent>>

\* A lease or a backoff ends; while a worker still holds the refund, that worker is late.
TimeComes(r) ==
    /\ refund[r].next = "later"
    /\ IF Holders(r) = {} THEN UNCHANGED faults
                          ELSE faults < MaxFaults /\ faults' = faults + 1
    /\ refund' = [refund EXCEPT ![r].next = "now"]
    /\ UNCHANGED <<payment, returned, sent, worker>>

\* The provider's notice (PaymentService.apply): what it gave back in all, or a dispute.
Notice ==
    /\ payment.status \in REFUNDABLE
    /\ \E s \in {"partially_refunded", "refunded", "chargeback"} :
          /\ s = "partially_refunded" => DoneCents \in 1..(Paid - 1)
          /\ s = "refunded" => DoneCents = Paid
          /\ s \in NextStatus(payment.status)
          /\ payment' = [payment EXCEPT !.status = s]
    /\ UNCHANGED <<returned, refund, sent, worker, faults>>

-----------------------------------------------------------------------------
RefundsInit ==
    /\ payment \in [status : {"approved"}, method : Methods, refunded : {0}]
    /\ returned = 0
    /\ refund = [r \in Refunds |->
          [status |-> "none", kind |-> "operator", amount |-> 0, shipping |-> 0,
           plan |-> NoLines(Order), attempts |-> 0, next |-> "never"]]
    /\ sent = [r \in Refunds |-> "no"]
    /\ worker = [w \in Workers |-> [refund |-> NoRefund, claim |-> 0, answer |-> "none"]]
    /\ faults = 0

RefundsNext ==
    \/ \E r \in Refunds :
         \/ \E amount \in Amounts : RequestAmount(r, amount)
         \/ \E selection \in Selections, withShipping \in BOOLEAN :
               RequestItems(r, selection, withShipping)
         \/ \E kind \in RefundKind : RequestRest(r, kind)
         \/ Approve(r)
         \/ Reject(r) \/ CompleteExternal(r)
         \/ ProviderSettles(r) \/ TimeComes(r)
         \/ \E w \in Workers : Claim(w, r)
    \/ \E w \in Workers : ProviderAnswers(w) \/ Record(w) \/ Dies(w)
    \/ Notice

RefundsSpec == RefundsInit /\ [][RefundsNext]_refundVars

-----------------------------------------------------------------------------
\* payments/models.py: the refunds that count never add up to more than what was paid, whoever
\* asks at the same time and whatever is rejected or fails in between.
CountedWithinPaid == Cents(In(COUNTED)) <= Paid

\* What was given back is counted once, on the payment and on the order, and only after the
\* provider did it, although a refund may be claimed twice and answered late.
RefundedOnce ==
    /\ payment.refunded = Cents(In({"completed"}))
    /\ returned = Cents({r \in In({"completed"}) : refund[r].kind \in ORDER_VALUE_KINDS})
    /\ payment.method = "provider" => \A r \in In({"completed"}) : sent[r] = "done"
    /\ payment.status = "refunded" => Paid \in {DoneCents, payment.refunded}

\* No unit is given back twice and, while nothing was refused, the pieces of a line add up: to no
\* more than its part of the pot, and to exactly that when all its units came back; no cent of
\* the pot belongs to no line.
UnitsRefundedOnce ==
    LET done == LinesRefunded(In(COUNTED))
    IN  /\ \A l \in LinesOf(Order) : done[l].units <= Order.units[l]
        /\ In({"rejected", "failed"}) = {} =>
             \A l \in LinesOf(Order) :
                /\ done[l].cents <= FullLineCents[l]
                /\ done[l].units = Order.units[l] => done[l].cents = FullLineCents[l]
        /\ Sum(FullLineCents, LinesOf(Order)) = Pot(Order)
        /\ ShippingRefunded <= Order.shipping

\* The refunds of an order add up, as money promised, as money given back and as units.
RefundsAddUp == CountedWithinPaid /\ RefundedOnce /\ UnitsRefundedOnce
=============================================================================
