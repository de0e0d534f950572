------------------------------ MODULE Charges ------------------------------
(***************************************************************************)
(* The payment providers (payments/providers): what each adapter sends,    *)
(* what it makes of the answer, and how an answer is applied to a payment. *)
(* Mercado Pago makes one charge (its "order") when the payment is         *)
(* created; InfinitePay and PagBank give a page on which the customer may  *)
(* make several, known only from the hint of a notice or of the way back.  *)
(*                                                                         *)
(* A call is answered from the charges as they are then, and the answer    *)
(* applied later, under the order's lock.  When a payment is asked about    *)
(* and what its approval means for the order is Payments.                  *)
(***************************************************************************)
EXTENDS Integers, Sequences, FiniteSetsExt

CONSTANTS Payments, Callers,
          Kinds,        \* providers to consider, of "mercadopago", "infinitepay", "pagbank"
          MaxCharges,   \* charges at the provider (model bound)
          MaxFaults     \* answers to a create lost (model bound)

VARIABLES kind,    \* the provider of these payments
          alike,   \* the payments are of the same amount
          charge,  \* sequence of [of, at]: at the provider
          pay,     \* per payment: status, id, link, and the charge that approved it (raw_summary)
          call,    \* per caller: what it asks and the answer
          refund,  \* per request: its payment, amount asked, given back
          faults

chargeVars == <<kind, alike, charge, pay, call, refund, faults>>

None == 0                          \* no charge
Page == MaxCharges + 1             \* the id of a PagBank checkout, which is no charge
Total == 2                         \* the amount of a charge, in units a refund may split
Requests == 1..2
Free == [op |-> "none", pay |-> "none", status |-> "none", id |-> None, about |-> None,
         money |-> FALSE]
Fault == faults < MaxFaults /\ faults' = faults + 1
Paid(at) == at \in {"paid", "lagging"}

-----------------------------------------------------------------------------
(* What a charge looks like in Mercado Pago's answer: the payment inside the order, the order   *)
(* itself, how much was given back, whether it was charged back.                                *)

Order(at) ==
    LET says(inner, detail, outer) ==
            [inner |-> inner, detail |-> detail, outer |-> outer,
             refunded |-> CASE at = "partly" -> 1 [] at = "refunded" -> Total [] OTHER -> 0,
             chargeback |-> at = "charged_back"]
    IN  CASE at = "waiting"   -> says("action_required", "waiting_transfer", "action_required")
          [] at = "analysis"  -> says("in_process", "none", "processing")
          [] at = "lagging"   -> says("processing", "none", "accredited")
          [] at = "failed"    -> says("failed", "none", "failed")
          [] at = "cancelled" -> says("canceled", "none", "canceled")
          [] at = "expired"   -> says("canceled", "expired", "canceled")
          [] OTHER            -> says("processed", "accredited", "accredited")

MapStatus(status, detail) ==
    CASE detail = "accredited" -> "approved"
      [] status = "action_required" \/ detail = "waiting_transfer" -> "requires_action"
      [] status = "failed" -> "rejected"
      [] status = "canceled" -> IF detail = "expired" THEN "expired" ELSE "cancelled"
      [] OTHER -> "pending"

\* `order_status`: what came back decides, then the payment inside, then the order around it.
OrderStatus_InnerFirst(o) ==                     \* mutant: what is inside decides
    IF MapStatus(o.inner, o.detail) = "approved" THEN "approved"
    ELSE IF o.chargeback THEN "chargeback"
    ELSE IF o.refunded > 0 THEN "refunded"
    ELSE MapStatus(o.inner, o.detail)
OrderStatus(o) ==
    LET inside == MapStatus(o.inner, o.detail)
    IN  CASE o.chargeback -> "chargeback"
          [] o.refunded > 0 /\ ~o.chargeback ->
                IF o.refunded < Total THEN "partially_refunded" ELSE "refunded"
          [] OTHER -> IF inside = "pending" THEN MapStatus(o.outer, o.outer) ELSE inside

PagBankStatus(at) ==
    CASE at = "paid" -> "approved"
      [] at = "failed" -> "rejected"
      [] at = "cancelled" -> "cancelled"
      [] OTHER -> "requires_action"

-----------------------------------------------------------------------------
(* The answers *)

Answer(status, id, about) ==
    [status |-> status, id |-> id, about |-> about,
     money |-> about # None /\ status = "approved" /\ Paid(charge[about].at)]
Waiting == Answer("requires_action", None, None)

\* Mercado Pago: the order whose id we have, else the first found under our reference.
OursAt(p) == {c \in DOMAIN charge : charge[c].of = p}
MercadoPagoOrder(p) ==
    IF pay[p].id # None THEN pay[p].id
    ELSE IF OursAt(p) = {} THEN None ELSE Min(OursAt(p))
MercadoPagoAnswer(p) ==
    LET c == MercadoPagoOrder(p)
    IN  IF c = None THEN Answer("pending", None, None)
        ELSE Answer(OrderStatus(Order(charge[c].at)), c, c)

\* InfinitePay says whether the transaction of the hint is paid, and how much it was; nothing
\* here relies on its looking at our reference too.
SameAmount_Any(p, c) == TRUE                     \* mutant: `amount_mismatch` is not looked at
SameAmount(p, c) == alike \/ charge[c].of = p
InfinitePayAnswers(p, c) ==
    IF c = None \/ ~Paid(charge[c].at) THEN {Waiting}
    ELSE {IF SameAmount(p, c) THEN Answer("approved", c, c) ELSE Answer("error", None, None)}
         \cup (IF charge[c].of = p THEN {} ELSE {Waiting})

\* PagBank tells the charge of the hint, with the reference it was made under.
PagBankAnswer(p, c) ==
    IF c = None THEN Waiting
    ELSE IF charge[c].of # p THEN Answer("error", None, c)       \* `reference_mismatch`
    ELSE Answer(PagBankStatus(charge[c].at), c, c)

Answers(p, hint) ==
    CASE kind = "mercadopago" -> {MercadoPagoAnswer(p)}
      [] kind = "infinitepay" -> InfinitePayAnswers(p, hint)
      [] OTHER -> {PagBankAnswer(p, hint)}

-----------------------------------------------------------------------------
(* Outside: the customer and the provider *)

Made(p, at) ==
    /\ Len(charge) < MaxCharges
    /\ charge' = Append(charge, [of |-> p, at |-> at])

\* On the page a customer whose card was refused, or who pays twice, makes another charge.
PaysOnPage(p) ==
    /\ pay[p].link
    /\ \E at \in {"analysis", "failed", "paid"} : Made(p, at)
    /\ UNCHANGED <<kind, alike, pay, call, refund, faults>>

Becomes(at) ==
    CASE at \in {"waiting", "analysis"} -> {"paid", "failed", "cancelled"} \cup
            (IF kind = "mercadopago" THEN {"lagging", "expired"} ELSE {})
      [] at = "lagging" -> {"paid"}
      [] at = "paid" -> IF kind = "mercadopago" THEN {"refunded", "charged_back"} ELSE {}
      [] OTHER -> {}
Changes(c) ==
    /\ \E at \in Becomes(charge[c].at) : charge' = [charge EXCEPT ![c].at = at]
    /\ UNCHANGED <<kind, alike, pay, call, refund, faults>>

-----------------------------------------------------------------------------
(* Calls: answered now, applied later *)

Told(w, op, p, a) ==
    /\ call[w] = Free
    /\ call' = [call EXCEPT ![w] = [op |-> op, pay |-> p, status |-> a.status, id |-> a.id,
                                    about |-> a.about, money |-> a.money]]

\* The charge is made when the payment is; where there is a page the customer makes it there.
Starts(w, p) ==
    /\ pay[p].status = "none"
    /\ pay' = [pay EXCEPT ![p].status = "pending"]
    /\ IF kind = "mercadopago"
       THEN \E at \in {"waiting", "analysis", "paid", "failed"} :
               /\ Made(p, at)
               /\ \/ /\ Told(w, "create", p, [status |-> OrderStatus(Order(at)), id |-> Len(charge) + 1,
                                              about |-> Len(charge) + 1, money |-> Paid(at)])
                     /\ UNCHANGED faults
                  \/ Fault /\ UNCHANGED call
       ELSE /\ Told(w, "create", p, [Waiting EXCEPT !.id = IF kind = "pagbank" THEN Page ELSE None])
            /\ UNCHANGED <<charge, faults>>
    /\ UNCHANGED <<kind, alike, refund>>

\* `sync`: for a notice, whose charge is the hint and which is found by the provider's id or by
\* our reference; for the reconciliation, with no hint; or for the customer who is back with the
\* page's data, be it of another purchase.  Notices come late, twice, in any order, or not at all.
Checks(w, p, hint) ==
    /\ pay[p].status # "none"
    /\ \E a \in Answers(p, hint) : Told(w, "fetch", p, a)
    /\ UNCHANGED <<kind, alike, charge, pay, refund, faults>>

\* The customer wants another way; the charge is cancelled where that can be done, and answers
\* with its state where it no longer can.
GivesUp(p) ==
    /\ pay[p].status \in {"pending", "requires_action"}
    /\ pay' = [pay EXCEPT ![p].status = "cancelled"]
    /\ UNCHANGED <<kind, alike, charge, call, refund, faults>>
Cancels(w, p) ==
    LET c == MercadoPagoOrder(p)
    IN  /\ kind = "mercadopago" /\ pay[p].status = "cancelled" /\ c # None
        /\ IF charge[c].at \in {"waiting", "analysis"}
           THEN /\ charge' = [charge EXCEPT ![c].at = "cancelled"]
                /\ Told(w, "cancel", p, Answer("cancelled", c, c))
           ELSE Told(w, "cancel", p, MercadoPagoAnswer(p)) /\ UNCHANGED charge
        /\ UNCHANGED <<kind, alike, pay, refund, faults>>

-----------------------------------------------------------------------------
(* `apply` *)

NextStatus(from) ==
    CASE from = "pending" -> {"requires_action", "approved", "rejected", "cancelled", "expired"}
      [] from = "requires_action" -> {"approved", "rejected", "cancelled", "expired"}
      [] from \in {"rejected", "cancelled", "expired"} -> {"approved"}
      [] from = "approved" -> {"partially_refunded", "refunded", "chargeback"}
      [] from = "partially_refunded" -> {"refunded", "chargeback"}
      [] OTHER -> {}

\* One transaction pays one payment.
Taken_Never(p, id) == FALSE                      \* mutant: nobody looks, and no unique key
Taken(p, id) == \E q \in Payments \ {p} : pay[q].id = id
Applied(p, a) ==
    LET learns == a.id # None /\ pay[p].id = None
        known  == IF learns THEN [pay[p] EXCEPT !.id = a.id] ELSE pay[p]
    IN  IF a.status = "error" \/ (learns /\ a.id # Page /\ Taken(p, a.id)) THEN pay[p]
        ELSE IF a.status \notin NextStatus(known.status) THEN known
        ELSE [known EXCEPT !.status = a.status,
                           !.by = IF a.status = "approved" THEN a.about ELSE @]

Applies(w) ==
    LET p == call[w].pay
    IN  /\ call[w] # Free
        /\ pay' = [pay EXCEPT ![p] = [Applied(p, call[w]) EXCEPT
                     !.link = @ \/ (call[w].op = "create" /\ kind # "mercadopago")]]
        /\ call' = [call EXCEPT ![w] = Free]
        /\ UNCHANGED <<kind, alike, charge, refund, faults>>

-----------------------------------------------------------------------------
(* `refund` (Mercado Pago): the whole goes with no body, a part with its amount.  A call whose   *)
(* answer was lost is repeated: the request's id is the key under which it is done once.        *)

Sum(p, part) ==
    LET of(r) == IF refund[r].of = p THEN refund[r][part] ELSE 0 IN of(1) + of(2)
GivesBack_Whole(p, n) == Total - Sum(p, "given")        \* mutant: a part goes with no body too
GivesBack(p, n) == IF n = Total THEN Total - Sum(p, "given") ELSE n
Refunds(p, r, n) ==
    LET gives == GivesBack(p, n)
        c     == pay[p].id
        again == refund[r].of = p /\ refund[r].asked = n
    IN  /\ kind = "mercadopago" /\ pay[p].status \in {"approved", "partially_refunded"}
        /\ again \/ (refund[r].asked = 0 /\ Sum(p, "asked") + n <= Total)
        /\ IF refund[r].given > 0 \/ charge[c].at \notin {"paid", "lagging", "partly"}
           THEN /\ refund' = [refund EXCEPT ![r] = [of |-> p, asked |-> n, given |-> @.given]]
                /\ UNCHANGED charge
           ELSE /\ refund' = [refund EXCEPT ![r] = [of |-> p, asked |-> n, given |-> gives]]
                /\ charge' = [charge EXCEPT ![c].at =
                                IF Sum(p, "given") + gives = Total THEN "refunded" ELSE "partly"]
        /\ UNCHANGED <<kind, alike, pay, call, faults>>

-----------------------------------------------------------------------------
ChargeInit ==
    /\ kind \in Kinds /\ alike \in BOOLEAN /\ (kind # "infinitepay" => alike)
    /\ charge = <<>> /\ faults = 0
    /\ pay = [p \in Payments |-> [status |-> "none", id |-> None, link |-> FALSE, by |-> None]]
    /\ call = [w \in Callers |-> Free]
    /\ refund = [r \in Requests |-> [of |-> "none", asked |-> 0, given |-> 0]]

ChargeNext ==
    \/ \E p \in Payments : \/ PaysOnPage(p) \/ GivesUp(p)
                            \/ \E r \in Requests, n \in 1..Total : Refunds(p, r, n)
    \/ \E c \in DOMAIN charge : Changes(c)
    \/ \E w \in Callers :
          \/ Applies(w)
          \/ \E p \in Payments :
                \/ Starts(w, p) \/ Cancels(w, p)
                \/ \E c \in {None} \cup DOMAIN charge : Checks(w, p, c)

ChargeSpec == ChargeInit /\ [][ChargeNext]_chargeVars

-----------------------------------------------------------------------------
\* An answer that says the money is there was given while it was: what came back or was charged
\* back is never told as approved, whatever the parts of the provider's answer say
\* (`order_status`).
ApprovedIsMoney == \A w \in Callers : call[w].status = "approved" => call[w].money

\* One charge pays one payment, of its amount, however late or out of order the notices come and
\* whatever hint a customer brings back from another purchase (`apply`, `_provider_id_taken`).
ChargePaysOnce ==
    \A p \in Payments : LET c == pay[p].by IN
        c # None => /\ alike \/ charge[c].of = p
                    /\ \A q \in Payments \ {p} : pay[q].by # c

\* A refund gives back no more than was asked, repeated or not (`refund`: falling to the total
\* would give back more).
RefundedAsAsked == \A r \in Requests : refund[r].given <= refund[r].asked

ChargesHold == ApprovedIsMoney /\ ChargePaysOnce /\ RefundedAsAsked
=============================================================================
