----------------------------- MODULE PaymentsProofs -----------------------------
(* Proofs about the money of one order, for every set of payments, jobs and amounts, and *)
(* any number of faults: the order's money is kept once, the surcharge it shows is that  *)
(* of the payment it waits for, and what the payment side does is what Settlement        *)
(* promises.                                                                             *)
EXTENDS MCPayments, SequenceTheorems, FiniteSetTheorems, WellFoundedInduction, TLAPS

-----------------------------------------------------------------------------
(* The type of the state *)

Rows == [status : PaymentStatus, id : BOOLEAN, active : BOOLEAN, check : BOOLEAN,
         attempts : Nat, amount : Nat, refund : BOOLEAN]

OrderStatuses == {"awaiting_payment", "confirmed", "failed", "cancelled"}

OrderRows == [status : OrderStatuses, paid : BOOLEAN, surcharge : Nat,
              clock : {"ahead", "due", "over"}, extended : BOOLEAN]

Databases == [order : OrderRows, pay : [Payments -> Rows], approvals : Seq(Payments)]

\* A call in hand is about a payment; only the expiry job has a decision to make without one.
CallOK(c) ==
    /\ call[c].stage \in {"sent", "answered"} => call[c].pay \in Payments
    /\ c # "expiry" => call[c].pay \in Payments \/ call[c] = Idle

Calls == [kind : {"none", "create", "fetch", "lookup", "cancel"}, pay : Payments \cup {NoPayment},
          stage : {"idle", "sent", "answered", "applied", "settled"},
          answer : Charge \cup {"error"}]

TypeOK ==
    /\ db \in Databases
    /\ charge \in [Payments -> Charge]
    /\ notices \subseteq Payments
    /\ call \in [Callers -> Calls]
    /\ \A c \in Callers : CallOK(c)

-----------------------------------------------------------------------------
(* The inductive invariant, of the database *)

Moneyed == {"approved", "refunded", "charged_back"}

\* A payment the order may have been paid with.
Ours(d) == {p \in Payments : d.pay[p].status \in Moneyed /\ ~d.pay[p].refund}

\* One payment is open at a time, only while the order awaits payment, and the order's total
\* has its surcharge.
OpenIsOne(d) ==
    /\ \A p \in Payments : d.pay[p].active <=> d.pay[p].status = "pending"
    /\ \A p, q \in Active(d) : p = q
    /\ Active(d) # {} => Awaiting(d)
    /\ Awaiting(d) => /\ \A p \in Active(d) : d.order.surcharge = d.pay[p].amount
                      /\ Active(d) = {} => d.order.surcharge = 0

\* Until an order is paid no money is kept for it, and a confirmed one was paid with exactly
\* one payment.
OursIsOne(d) ==
    /\ \A p \in Payments : d.pay[p].refund => d.pay[p].status \in Moneyed
    /\ \A p \in Payments : d.pay[p].status = "refunded" => d.pay[p].refund
    /\ Awaiting(d) => \A p \in Payments : d.pay[p].status \notin Moneyed
    /\ d.order.status \in {"awaiting_payment", "failed"} => ~d.order.paid /\ Ours(d) = {}
    /\ d.order.status = "confirmed" => \E p \in Payments : Ours(d) = {p}
    /\ d.order.status = "cancelled" => \A p, q \in Ours(d) : p = q

\* When a failed order always finds its stock again, the first approval is the one that paid:
\* it is the one a cancelled order gives back.
FirstPays(d) ==
    /\ \A i \in DOMAIN d.approvals : d.pay[d.approvals[i]].status \in Moneyed
    /\ d.order.status \in {"awaiting_payment", "failed"} => d.approvals = <<>>
    /\ d.order.status = "confirmed" =>
          d.approvals # <<>> /\ Ours(d) = {d.approvals[1]}
    /\ d.order.status = "cancelled" => Kept(d) = {}

\* Money goes back at the provider only where a refund was asked for.
RefundsWereAsked ==
    /\ \A p \in Payments : charge[p] = "refunded" => db.pay[p].refund
    /\ \A c \in Callers : call[c].stage = "answered" /\ call[c].answer = "refunded" =>
                             db.pay[call[c].pay].refund

DbInv(d) ==
    /\ d \in Databases
    /\ OpenIsOne(d) /\ OursIsOne(d)
    /\ Recoverable = {TRUE} => FirstPays(d)

IInv == TypeOK /\ DbInv(db) /\ RefundsWereAsked

-----------------------------------------------------------------------------
(* The statuses *)

LEMMA StatusMoves ==
    ASSUME NEW a \in Charge
    PROVE  /\ TargetOf(a) \in {"pending", "approved", "rejected", "cancelled", "refunded", "charged_back"}
           /\ TargetOf(a) = "refunded" => a = "refunded"
           /\ TargetOf(a) # "none"
           /\ \A s : CanTransition(s, TargetOf(a)) =>
                 /\ s \in {"pending", "approved", "rejected", "cancelled", "expired"}
                 /\ TargetOf(a) \in {"refunded", "charged_back"} => s = "approved"
                 /\ TargetOf(a) \in {"rejected", "cancelled"} => s = "pending"
                 /\ TargetOf(a) # "pending"
                 /\ TargetOf(a) = "approved" => s \notin Moneyed
<1>1. \A s : CanTransition(s, TargetOf(a)) =>
         \/ s = "pending" /\ TargetOf(a) \in {"approved", "rejected", "cancelled", "expired"}
         \/ s \in {"rejected", "cancelled", "expired"} /\ TargetOf(a) = "approved"
         \/ s = "approved" /\ TargetOf(a) \in {"refunded", "charged_back"}
  BY DEF CanTransition, NextStatus
<1>2. /\ a \in {"none", "open"} => TargetOf(a) = "pending"
      /\ a = "paid" => TargetOf(a) = "approved"
      /\ a = "refused" => TargetOf(a) = "rejected"
      /\ a \in {"cancelled", "refunded", "charged_back"} => TargetOf(a) = a
  BY DEF TargetOf
<1> QED
  BY <1>1, <1>2 DEF Charge, Moneyed

\* What a transaction that closes the open payment leaves.
LEMMA CloseActiveIs ==
    ASSUME NEW d \in Databases, NEW target \in {"cancelled", "expired"}
    PROVE  LET e == CloseActive(d, target)
           IN  /\ e \in Databases
               /\ e.order.status = d.order.status /\ e.order.paid = d.order.paid
               /\ e.approvals = d.approvals
               /\ e.order.surcharge = IF Active(d) # {} /\ Awaiting(d) THEN 0 ELSE d.order.surcharge
               /\ \A p \in Payments :
                     /\ e.pay[p].status = IF d.pay[p].active THEN target ELSE d.pay[p].status
                     /\ e.pay[p].active = FALSE
                     /\ e.pay[p].refund = d.pay[p].refund
                     /\ e.pay[p].amount = d.pay[p].amount
<1> DEFINE e == CloseActive(d, target)
<1>1. CASE Active(d) = {}
  <2>1. e = d
    BY <1>1 DEF CloseActive
  <2>2. \A p \in Payments : d.pay[p].active = FALSE
    BY <1>1 DEF Active, Databases, Rows
  <2> QED
    BY <1>1, <2>1, <2>2
<1>2. CASE Active(d) # {}
  <2> DEFINE row(p) == [d.pay[p] EXCEPT !.status = target, !.active = FALSE, !.check = TRUE, !.attempts = 0]
             f == [p \in Payments |-> IF p \in Active(d) THEN row(p) ELSE d.pay[p]]
             c == ClearSurcharge(d)
  <2>1. /\ c \in Databases /\ c.pay = d.pay /\ c.approvals = d.approvals
        /\ c.order.status = d.order.status /\ c.order.paid = d.order.paid
        /\ c.order.surcharge = IF Awaiting(d) THEN 0 ELSE d.order.surcharge
    BY DEF ClearSurcharge, Databases, OrderRows
  <2>2. e = [c EXCEPT !.pay = f]
    BY <1>2 DEF CloseActive
  <2>3. ASSUME NEW p \in Payments
        PROVE  /\ row(p) \in Rows /\ row(p).status = target /\ row(p).active = FALSE
               /\ row(p).refund = d.pay[p].refund /\ row(p).amount = d.pay[p].amount
    <3>1. d.pay[p] \in Rows /\ target \in PaymentStatus /\ 0 \in Nat
      BY DEF Databases, PaymentStatus
    <3> QED
      BY <3>1 DEF Rows
  <2>4. ASSUME NEW p \in Payments
        PROVE  /\ f[p] \in Rows
               /\ f[p].status = IF d.pay[p].active THEN target ELSE d.pay[p].status
               /\ f[p].active = FALSE
               /\ f[p].refund = d.pay[p].refund
               /\ f[p].amount = d.pay[p].amount
    <3> HIDE DEF row
    <3>1. f[p] = IF d.pay[p].active THEN row(p) ELSE d.pay[p]
      BY DEF Active
    <3>2. d.pay[p] \in Rows /\ d.pay[p].active \in BOOLEAN
      BY DEF Databases, Rows
    <3> QED
      BY <2>3, <3>1, <3>2
  <2>5. f \in [Payments -> Rows]
    BY <2>4
  <2> HIDE DEF f, c, row, e
  <2>6. /\ e \in Databases /\ e.pay = f /\ e.order = c.order /\ e.approvals = c.approvals
    BY <2>1, <2>2, <2>5 DEF Databases
  <2>7. /\ e.order.surcharge = IF Active(d) # {} /\ Awaiting(d) THEN 0 ELSE d.order.surcharge
        /\ \A p \in Payments :
              /\ e.pay[p].status = IF d.pay[p].active THEN target ELSE d.pay[p].status
              /\ e.pay[p].active = FALSE
              /\ e.pay[p].refund = d.pay[p].refund
              /\ e.pay[p].amount = d.pay[p].amount
    BY <1>2, <2>1, <2>4, <2>6
  <2> QED
    BY <2>1, <2>6, <2>7 DEF e
<1> QED
  BY <1>1, <1>2

-----------------------------------------------------------------------------
(* What a transaction may do to the money: a step of Settlement, or none *)

Returned(d) == {p \in Payments : d.pay[p].refund}

Settles(d, e) ==
    \/ e.order.status = d.order.status /\ Kept(e) = Kept(d) /\ Returned(e) = Returned(d)
    \/ \E p \in Payments :
          \/ /\ d.order.status \in {"awaiting_payment", "failed"}
             /\ p \notin Returned(d)
             /\ e.order.status = "confirmed" /\ Kept(e) = {p} /\ Returned(e) = Returned(d)
          \/ /\ d.order.status # "awaiting_payment" /\ p \notin Kept(d)
             /\ Returned(e) = Returned(d) \cup {p}
             /\ e.order.status = d.order.status /\ Kept(e) = Kept(d)
          \/ /\ Kept(e) = Kept(d) \ {p}
             /\ e.order.status = d.order.status /\ Returned(e) = Returned(d)
    \/ /\ d.order.status = "awaiting_payment" /\ e.order.status = "failed"
       /\ Kept(e) = Kept(d) /\ Returned(e) = Returned(d)
    \/ /\ d.order.status \in {"awaiting_payment", "confirmed"} /\ e.order.status = "cancelled"
       /\ Kept(e) = {} /\ Returned(e) = Returned(d) \cup Kept(d)

\* A transaction keeps the invariant, takes no request of a refund back, and settles.
Sound(d, e) ==
    /\ DbInv(e)
    /\ \A p \in Payments : d.pay[p].refund => e.pay[p].refund
    /\ Recoverable = {TRUE} => Settles(d, e)

\* What a payment has, as far as money goes.
SamePayment(d, e, p) ==
    /\ e.pay[p].status = d.pay[p].status /\ e.pay[p].active = d.pay[p].active
    /\ e.pay[p].refund = d.pay[p].refund /\ e.pay[p].amount = d.pay[p].amount

\* Nothing about money changed: an id was learned, a check planned, a deadline moved.
Alike(d, e) ==
    /\ e \in Databases
    /\ e.order.status = d.order.status /\ e.order.paid = d.order.paid
    /\ e.order.surcharge = d.order.surcharge /\ e.approvals = d.approvals
    /\ \A p \in Payments : SamePayment(d, e, p)

LEMMA AlikeIsSound ==
    ASSUME NEW d, DbInv(d), NEW e, Alike(d, e)
    PROVE  Sound(d, e)
<1>1. Active(e) = Active(d) /\ Awaiting(e) = Awaiting(d)
  BY DEF Alike, SamePayment, Active, Awaiting
<1>2. Ours(e) = Ours(d) /\ Kept(e) = Kept(d) /\ Returned(e) = Returned(d)
  BY DEF Alike, SamePayment, Ours, Kept, Returned
<1>3. OpenIsOne(e)
  <2>1. \A p \in Active(d) : e.pay[p].amount = d.pay[p].amount
    BY DEF Alike, SamePayment, Active
  <2> QED
    BY <1>1, <2>1 DEF Alike, SamePayment, DbInv, OpenIsOne
<1>4. OursIsOne(e)
  BY <1>1, <1>2 DEF Alike, SamePayment, DbInv, OursIsOne
<1>5. ASSUME Recoverable = {TRUE} PROVE FirstPays(e)
  <2>1. \A i \in DOMAIN d.approvals : d.approvals[i] \in Payments
    BY DEF DbInv, Databases
  <2> QED
    BY <1>2, <1>5, <2>1 DEF Alike, SamePayment, DbInv, FirstPays
<1> QED
  BY <1>2, <1>3, <1>4, <1>5 DEF Sound, DbInv, Alike, SamePayment, Settles

-----------------------------------------------------------------------------
(* `close_active_payment`, and the order's own ends *)

LEMMA DbTypes ==
    ASSUME NEW d \in Databases
    PROVE  /\ \A p \in Payments : /\ d.pay[p].active \in BOOLEAN /\ d.pay[p].refund \in BOOLEAN
                                  /\ d.pay[p].status \in PaymentStatus /\ d.pay[p].amount \in Nat
                                  /\ d.pay[p] \in Rows
           /\ d.order \in OrderRows /\ d.order.status \in OrderStatuses
           /\ d.order.paid \in BOOLEAN /\ d.order.surcharge \in Nat
           /\ d.approvals \in Seq(Payments)
BY DEF Databases, Rows, OrderRows

LEMMA CloseIsSound ==
    ASSUME NEW d, DbInv(d)
    PROVE  Sound(d, CloseActive(d, "cancelled"))
<1> DEFINE e == CloseActive(d, "cancelled")
<1> SUFFICES Sound(d, e)
  OBVIOUS
<1>1. /\ e \in Databases
      /\ e.order.status = d.order.status /\ e.order.paid = d.order.paid
      /\ e.approvals = d.approvals
      /\ e.order.surcharge = IF Active(d) # {} /\ Awaiting(d) THEN 0 ELSE d.order.surcharge
      /\ \A p \in Payments :
            /\ e.pay[p].status = IF d.pay[p].active THEN "cancelled" ELSE d.pay[p].status
            /\ e.pay[p].active = FALSE
            /\ e.pay[p].refund = d.pay[p].refund
            /\ e.pay[p].amount = d.pay[p].amount
  BY CloseActiveIs DEF DbInv
<1> HIDE DEF e
<1>2. \A p \in Payments : d.pay[p].active => d.pay[p].status = "pending"
  BY DEF DbInv, OpenIsOne
<1>3. Active(e) = {} /\ Awaiting(e) = Awaiting(d)
  BY <1>1 DEF Active, Awaiting
<1>4. Ours(e) = Ours(d) /\ Kept(e) = Kept(d) /\ Returned(e) = Returned(d)
  BY <1>1, <1>2 DEF Ours, Kept, Returned, Moneyed
<1>5. OpenIsOne(e)
  BY <1>1, <1>3, DbTypes DEF DbInv, OpenIsOne
<1>6. OursIsOne(e)
  BY <1>1, <1>2, <1>3, <1>4 DEF DbInv, OursIsOne, Moneyed
<1>7. ASSUME Recoverable = {TRUE} PROVE FirstPays(e)
  <2>1. \A i \in DOMAIN d.approvals : d.approvals[i] \in Payments
    BY DEF DbInv, Databases
  <2> QED
    BY <1>1, <1>2, <1>4, <1>7, <2>1 DEF DbInv, FirstPays, Moneyed
<1> QED
  BY <1>1, <1>4, <1>5, <1>6, <1>7 DEF Sound, DbInv, Settles

\* An order that ends unpaid, by a cancellation or by its deadline.
LEMMA UnpaidEnds ==
    ASSUME NEW d, DbInv(d), Awaiting(d),
           NEW s \in {"cancelled", "failed"}, NEW target \in {"cancelled", "expired"}
    PROVE  Sound(d, CloseActive([d EXCEPT !.order.status = s], target))
<1> DEFINE c == [d EXCEPT !.order.status = s]
           e == CloseActive(c, target)
<1> SUFFICES Sound(d, e)
  OBVIOUS
<1>1. /\ c \in Databases /\ c.order.status = s /\ c.order.paid = d.order.paid
      /\ c.pay = d.pay /\ c.approvals = d.approvals
  BY DEF DbInv, Databases, OrderRows, OrderStatuses
<1> HIDE DEF c
<1>2. /\ e \in Databases
      /\ e.order.status = s /\ e.order.paid = d.order.paid
      /\ e.approvals = d.approvals
      /\ \A p \in Payments :
            /\ e.pay[p].status = IF d.pay[p].active THEN target ELSE d.pay[p].status
            /\ e.pay[p].active = FALSE
            /\ e.pay[p].refund = d.pay[p].refund
  <2>1. /\ e \in Databases
        /\ e.order.status = c.order.status /\ e.order.paid = c.order.paid
        /\ e.approvals = c.approvals
        /\ \A p \in Payments :
              /\ e.pay[p].status = IF c.pay[p].active THEN target ELSE c.pay[p].status
              /\ e.pay[p].active = FALSE
              /\ e.pay[p].refund = c.pay[p].refund
    BY ZenonT(60), <1>1, CloseActiveIs
  <2> QED
    BY <1>1, <2>1
<1> HIDE DEF e
<1>3. /\ \A p \in Payments : d.pay[p].active <=> d.pay[p].status = "pending"
      /\ \A p \in Payments : d.pay[p].status \notin Moneyed
      /\ \A p \in Payments : d.pay[p].refund = FALSE
      /\ ~d.order.paid
  BY DbTypes DEF DbInv, OpenIsOne, OursIsOne, Awaiting
<1>4. \A p \in Payments : e.pay[p].status \notin Moneyed /\ e.pay[p].status # "pending"
  BY <1>2, <1>3 DEF Moneyed
<1>5. /\ Ours(e) = {} /\ Kept(e) = {} /\ Kept(d) = {}
      /\ Returned(d) = {} /\ Returned(e) = {} /\ Active(e) = {} /\ ~Awaiting(e)
  BY <1>2, <1>3, <1>4 DEF Ours, Kept, Returned, Active, Awaiting, Moneyed
<1>6. OpenIsOne(e)
  BY <1>2, <1>4, <1>5 DEF OpenIsOne
<1>7. OursIsOne(e)
  BY <1>2, <1>3, <1>4, <1>5 DEF OursIsOne, Moneyed
<1>8. ASSUME Recoverable = {TRUE} PROVE FirstPays(e)
  <2>1. d.approvals = <<>>
    BY <1>8 DEF DbInv, FirstPays, Awaiting
  <2> QED
    BY <1>2, <1>5, <2>1 DEF FirstPays
<1>9. Settles(d, e)
  BY <1>2, <1>5 DEF Settles, Awaiting
<1> QED
  BY <1>2, <1>3, <1>6, <1>7, <1>8, <1>9 DEF Sound, DbInv

LEMMA ExpiredIsSound ==
    ASSUME NEW d, DbInv(d)
    PROVE  Sound(d, Expired(d))
<1>1. CASE Awaiting(d) /\ d.order.clock # "ahead"
  BY <1>1, UnpaidEnds DEF Expired
<1>2. CASE ~(Awaiting(d) /\ d.order.clock # "ahead")
  <2>1. Alike(d, d)
    BY DEF Alike, SamePayment, DbInv
  <2> QED
    BY <1>2, <2>1, AlikeIsSound DEF Expired
<1> QED
  BY <1>1, <1>2

\* The earliest approved payment is the first, when that is still approved.
LEMMA RefundableIs ==
    ASSUME NEW d \in Databases
    PROVE  /\ \A p \in Refundable(d) : p \in Payments /\ d.pay[p].status = "approved"
           /\ d.approvals # <<>> /\ d.pay[d.approvals[1]].status = "approved" =>
                 Refundable(d) = {d.approvals[1]}
<1> DEFINE still == {i \in DOMAIN d.approvals : d.pay[d.approvals[i]].status = "approved"}
           least == CHOOSE i \in still : \A j \in still : i <= j
<1>1. d.approvals \in Seq(Payments)
  BY DEF Databases
<1>2. Refundable(d) = IF still = {} THEN {} ELSE {d.approvals[least]}
  BY DEF Refundable
<1>3. CASE still = {}
  BY <1>1, <1>2, <1>3
<1>4. CASE still # {}
  <2>1. \E i \in still : \A j \in still : i <= j
    <3> DEFINE R == OpToRel(<, Nat)
    <3>1. still \subseteq Nat /\ still # {}
      BY <1>1, <1>4
    <3>2. \A i, j \in Nat : <<j, i>> \notin R => i <= j
      BY DEF OpToRel
    <3> HIDE DEF still, R
    <3>3. IsWellFoundedOn(R, Nat)
      BY NatLessThanWellFounded DEF R
    <3>4. PICK i \in still : \A j \in still : <<j, i>> \notin R
      BY <3>1, <3>3, WFMin
    <3> QED
      BY <3>1, <3>2, <3>4
  <2>2. least \in still /\ \A j \in still : least <= j
    BY <2>1
  <2> HIDE DEF least
  <2>3. d.approvals[least] \in Payments /\ d.pay[d.approvals[least]].status = "approved"
    BY <1>1, <2>2
  <2>4. ASSUME d.approvals # <<>>, d.pay[d.approvals[1]].status = "approved"
        PROVE  least = 1
    BY <1>1, <2>2, <2>4
  <2> QED
    BY <1>2, <1>4, <2>3, <2>4
<1> QED
  BY <1>3, <1>4

\* Cancelling a paid order: the payment that is refunded is the one that paid it.
LEMMA PaidCancelled ==
    ASSUME NEW d, DbInv(d), d.order.status = "confirmed"
    PROVE  Sound(d, RefundAsked([d EXCEPT !.order.status = "cancelled"]))
<1> DEFINE c == [d EXCEPT !.order.status = "cancelled"]
           e == RefundAsked(c)
<1> SUFFICES Sound(d, e)
  OBVIOUS
<1>1. /\ c \in Databases /\ c.order.status = "cancelled" /\ c.order.paid = d.order.paid
      /\ c.pay = d.pay /\ c.approvals = d.approvals
  BY DEF DbInv, Databases, OrderRows, OrderStatuses
<1> DEFINE R == Refundable(c)
           f == [p \in Payments |-> IF p \in R THEN [d.pay[p] EXCEPT !.refund = TRUE] ELSE d.pay[p]]
<1>2. \A p \in Payments :
        /\ f[p] \in Rows /\ f[p].status = d.pay[p].status /\ f[p].active = d.pay[p].active
        /\ f[p].refund = (d.pay[p].refund \/ p \in R) /\ f[p].amount = d.pay[p].amount
  <2> HIDE DEF R
  <2>1. ASSUME NEW p \in Payments
        PROVE  LET r == [d.pay[p] EXCEPT !.refund = TRUE]
               IN  /\ r \in Rows /\ r.status = d.pay[p].status /\ r.active = d.pay[p].active
                   /\ r.refund = TRUE /\ r.amount = d.pay[p].amount
    BY DbTypes DEF DbInv, Rows
  <2> QED
    BY <2>1, DbTypes DEF DbInv
<1>3. e = [c EXCEPT !.pay = f]
  BY <1>1 DEF RefundAsked
<1> HIDE DEF c, f
<1>4. f \in [Payments -> Rows]
  BY <1>2, <1>3 DEF f
<1>5. /\ e \in Databases /\ e.order.status = "cancelled" /\ e.order.paid = d.order.paid
      /\ e.approvals = d.approvals /\ e.pay = f
  BY <1>1, <1>3, <1>4 DEF Databases
<1> HIDE DEF e
<1>6. \A p \in R : p \in Payments /\ d.pay[p].status = "approved"
  BY <1>1, RefundableIs
<1>7. Ours(e) = Ours(d) \ R /\ Kept(e) = Kept(d) \ R /\ Returned(e) = Returned(d) \cup R
  BY <1>2, <1>5, <1>6 DEF Ours, Kept, Returned
<1>8. Active(e) = Active(d) /\ ~Awaiting(e) /\ Active(d) = {}
  BY <1>2, <1>5 DEF Active, Awaiting, DbInv, OpenIsOne
<1>9. OpenIsOne(e)
  BY <1>2, <1>5, <1>8 DEF DbInv, OpenIsOne
<1>10. OursIsOne(e)
  <2>1. PICK q \in Payments : Ours(d) = {q}
    BY DEF DbInv, OursIsOne
  <2>2. \A x, y \in Ours(e) : x = y
    BY <1>7, <2>1
  <2>3. \A p \in Payments : e.pay[p].refund => e.pay[p].status \in Moneyed
    BY ZenonT(60), <1>2, <1>5, <1>6 DEF DbInv, OursIsOne, Moneyed
  <2>4. \A p \in Payments : e.pay[p].status = "refunded" => e.pay[p].refund
    BY <1>2, <1>5 DEF DbInv, OursIsOne
  <2> QED
    BY <1>5, <1>8, <2>2, <2>3, <2>4 DEF OursIsOne
<1>11. ASSUME Recoverable = {TRUE}
       PROVE  FirstPays(e) /\ Kept(e) = {} /\ R \subseteq Returned(d) \cup Kept(d) /\ Kept(d) \subseteq R
  <2>1. FirstPays(d)
    BY <1>11 DEF DbInv
  <2>2. d.approvals # <<>> /\ Ours(d) = {d.approvals[1]}
    BY <2>1 DEF FirstPays
  <2>3. Kept(d) \subseteq R
    <3>1. CASE d.pay[d.approvals[1]].status = "approved"
      <4>1. R = {d.approvals[1]}
        BY <1>1, <3>1, <2>2, RefundableIs
      <4> QED
        BY <2>2, <4>1 DEF Kept, Ours, Moneyed
    <3>2. CASE d.pay[d.approvals[1]].status # "approved"
      BY <2>2, <3>2 DEF Kept, Ours, Moneyed
    <3> QED
      BY <3>1, <3>2
  <2>4. R \subseteq Returned(d) \cup Kept(d)
    BY <1>6, DbTypes DEF Returned, Kept, DbInv
  <2>5. Kept(e) = {}
    BY <1>7, <2>3
  <2>6. \A i \in DOMAIN d.approvals : d.approvals[i] \in Payments
    BY DEF DbInv, Databases
  <2>7. FirstPays(e)
    BY <1>2, <1>5, <2>1, <2>5, <2>6 DEF FirstPays
  <2> QED
    BY <2>3, <2>4, <2>5, <2>7
<1>12. ASSUME Recoverable = {TRUE} PROVE Settles(d, e)
  <2>1. Returned(e) = Returned(d) \cup Kept(d)
    BY <1>7, <1>11, <1>12
  <2> QED
    BY <1>5, <1>11, <1>12, <2>1 DEF Settles
<1> QED
  BY <1>2, <1>5, <1>9, <1>10, <1>11, <1>12 DEF Sound, DbInv

-----------------------------------------------------------------------------
(* `apply`: an answer of the provider *)

Known(d, p, a) == IF a = "none" THEN d ELSE [d EXCEPT !.pay[p].id = TRUE]

MovedTo(d, p, target) == [d EXCEPT !.pay[p].status = target, !.pay[p].active = FALSE,
                                   !.pay[p].check = FALSE]

\* A row of a payment replaced by one with the same or other fields.
LEMMA RowIs ==
    ASSUME NEW d \in Databases, NEW p \in Payments, NEW row \in Rows
    PROVE  LET e == [d EXCEPT !.pay[p] = row]
           IN  /\ e \in Databases /\ e.order = d.order /\ e.approvals = d.approvals
               /\ e.pay[p] = row /\ \A q \in Payments \ {p} : e.pay[q] = d.pay[q]
<1> DEFINE f == [d.pay EXCEPT ![p] = row]
<1>1. f \in [Payments -> Rows] /\ f[p] = row /\ \A q \in Payments \ {p} : f[q] = d.pay[q]
  BY DEF Databases
<1>2. [d EXCEPT !.pay[p] = row] = [d EXCEPT !.pay = f]
  BY DEF Databases
<1> HIDE DEF f
<1> QED
  BY <1>1, <1>2 DEF Databases

LEMMA KnownIs ==
    ASSUME NEW d \in Databases, NEW p \in Payments, NEW a
    PROVE  Alike(d, Known(d, p, a))
<1> DEFINE row == [d.pay[p] EXCEPT !.id = TRUE]
           e == [d EXCEPT !.pay[p] = row]
<1>1. /\ row \in Rows /\ row.status = d.pay[p].status /\ row.active = d.pay[p].active
      /\ row.refund = d.pay[p].refund /\ row.amount = d.pay[p].amount
  BY DbTypes DEF Rows
<1>2. Known(d, p, a) = d \/ Known(d, p, a) = e
  BY DEF Known, Databases
<1> HIDE DEF row
<1>3. /\ e \in Databases /\ e.order = d.order /\ e.approvals = d.approvals
      /\ e.pay[p] = row /\ \A q \in Payments \ {p} : e.pay[q] = d.pay[q]
  BY <1>1, RowIs
<1> HIDE DEF e
<1> QED
  BY <1>1, <1>2, <1>3 DEF Alike, SamePayment

LEMMA MovedToIs ==
    ASSUME NEW d \in Databases, NEW p \in Payments, NEW target \in PaymentStatus
    PROVE  LET e == MovedTo(d, p, target)
           IN  /\ e \in Databases /\ e.order = d.order /\ e.approvals = d.approvals
               /\ e.pay[p].status = target /\ e.pay[p].active = FALSE
               /\ e.pay[p].refund = d.pay[p].refund /\ e.pay[p].amount = d.pay[p].amount
               /\ \A q \in Payments \ {p} : e.pay[q] = d.pay[q]
<1> DEFINE row == [d.pay[p] EXCEPT !.status = target, !.active = FALSE, !.check = FALSE]
           e == [d EXCEPT !.pay[p] = row]
<1>1. /\ row \in Rows /\ row.status = target /\ row.active = FALSE
      /\ row.refund = d.pay[p].refund /\ row.amount = d.pay[p].amount
  BY DbTypes DEF Rows
<1>2. MovedTo(d, p, target) = e
  BY DEF MovedTo, Databases
<1> HIDE DEF row
<1>3. /\ e \in Databases /\ e.order = d.order /\ e.approvals = d.approvals
      /\ e.pay[p] = row /\ \A q \in Payments \ {p} : e.pay[q] = d.pay[q]
  BY <1>1, RowIs
<1> HIDE DEF e
<1> QED
  BY <1>1, <1>2, <1>3

LEMMA AskedIs ==
    ASSUME NEW d \in Databases, NEW p \in Payments
    PROVE  LET e == [d EXCEPT !.pay[p].refund = TRUE]
           IN  /\ e \in Databases /\ e.order = d.order /\ e.approvals = d.approvals
               /\ e.pay[p].status = d.pay[p].status /\ e.pay[p].active = d.pay[p].active
               /\ e.pay[p].refund = TRUE /\ e.pay[p].amount = d.pay[p].amount
               /\ \A q \in Payments \ {p} : e.pay[q] = d.pay[q]
<1> DEFINE row == [d.pay[p] EXCEPT !.refund = TRUE]
           e == [d EXCEPT !.pay[p] = row]
<1>1. /\ row \in Rows /\ row.status = d.pay[p].status /\ row.active = d.pay[p].active
      /\ row.refund = TRUE /\ row.amount = d.pay[p].amount
  BY DbTypes DEF Rows
<1>2. [d EXCEPT !.pay[p].refund = TRUE] = e
  BY DEF Databases
<1> HIDE DEF row
<1>3. /\ e \in Databases /\ e.order = d.order /\ e.approvals = d.approvals
      /\ e.pay[p] = row /\ \A q \in Payments \ {p} : e.pay[q] = d.pay[q]
  BY <1>1, RowIs
<1> HIDE DEF e
<1> QED
  BY <1>1, <1>2, <1>3

\* The payment p of d is approved: recorded, before it is decided what its money does.
ApprovalOf(d, p) == [MovedTo(d, p, "approved") EXCEPT !.approvals = Append(@, p)]

LEMMA ApprovalIs ==
    ASSUME NEW d \in Databases, NEW p \in Payments
    PROVE  LET m == ApprovalOf(d, p)
           IN  /\ m \in Databases /\ m.order = d.order /\ m.approvals = Append(d.approvals, p)
               /\ m.pay[p].status = "approved" /\ m.pay[p].active = FALSE
               /\ m.pay[p].refund = d.pay[p].refund /\ m.pay[p].amount = d.pay[p].amount
               /\ \A q \in Payments \ {p} : m.pay[q] = d.pay[q]
<1> DEFINE k == MovedTo(d, p, "approved")
           m == [k EXCEPT !.approvals = Append(@, p)]
<1>1. /\ k \in Databases /\ k.order = d.order /\ k.approvals = d.approvals
      /\ k.pay[p].status = "approved" /\ k.pay[p].active = FALSE
      /\ k.pay[p].refund = d.pay[p].refund /\ k.pay[p].amount = d.pay[p].amount
      /\ \A q \in Payments \ {p} : k.pay[q] = d.pay[q]
  <2>1. "approved" \in PaymentStatus
    BY DEF PaymentStatus
  <2> QED
    BY <2>1, MovedToIs
<1>2. ApprovalOf(d, p) = m
  BY DEF ApprovalOf
<1> HIDE DEF k
<1>3. m \in Databases /\ m.order = k.order /\ m.pay = k.pay /\ m.approvals = Append(k.approvals, p)
  <2>1. Append(k.approvals, p) \in Seq(Payments)
    BY <1>1, DbTypes
  <2> DEFINE s == Append(k.approvals, p)
  <2>2. m = [k EXCEPT !.approvals = s]
    OBVIOUS
  <2> HIDE DEF s, m
  <2>3. s \in Seq(Payments)
    BY <2>1 DEF s
  <2>4. m \in Databases /\ m.order = k.order /\ m.pay = k.pay /\ m.approvals = s
    BY <1>1, <2>2, <2>3 DEF Databases
  <2> QED
    BY <2>4 DEF s
<1> HIDE DEF m
<1> QED
  BY <1>1, <1>2, <1>3

\* A payment that was not approved before.
Unpaid(d, p) == d.pay[p].status \in {"pending", "rejected", "cancelled", "expired"}

LEMMA ApprovalPays ==
    ASSUME NEW d, DbInv(d), NEW p \in Payments, Unpaid(d, p),
           d.order.status \in {"awaiting_payment", "failed"}
    PROVE  Sound(d, CloseActive([ApprovalOf(d, p) EXCEPT !.order.status = "confirmed",
                                                         !.order.paid = TRUE], "cancelled"))
<1> DEFINE m == ApprovalOf(d, p)
           c == [m EXCEPT !.order.status = "confirmed", !.order.paid = TRUE]
           e == CloseActive(c, "cancelled")
<1> SUFFICES Sound(d, e)
  OBVIOUS
<1>0. d \in Databases
  BY DEF DbInv
<1>1. /\ m \in Databases /\ m.order = d.order /\ m.approvals = Append(d.approvals, p)
      /\ m.pay[p].status = "approved" /\ m.pay[p].active = FALSE
      /\ m.pay[p].refund = d.pay[p].refund
      /\ \A q \in Payments \ {p} : m.pay[q] = d.pay[q]
  BY <1>0, ApprovalIs
<1> HIDE DEF m
<1>2. /\ c \in Databases /\ c.pay = m.pay /\ c.approvals = m.approvals
      /\ c.order.status = "confirmed"
  BY <1>1 DEF Databases, OrderRows, OrderStatuses
<1> HIDE DEF c
<1>3. /\ e \in Databases /\ e.order.status = "confirmed"
      /\ e.approvals = Append(d.approvals, p)
      /\ \A q \in Payments :
            /\ e.pay[q].status = IF c.pay[q].active THEN "cancelled" ELSE c.pay[q].status
            /\ e.pay[q].active = FALSE
            /\ e.pay[q].refund = c.pay[q].refund
  BY <1>1, <1>2, CloseActiveIs
<1> HIDE DEF e
<1>4. /\ e.pay[p].status = "approved" /\ e.pay[p].refund = d.pay[p].refund
      /\ \A q \in Payments \ {p} :
            /\ e.pay[q].status = IF d.pay[q].active THEN "cancelled" ELSE d.pay[q].status
            /\ e.pay[q].refund = d.pay[q].refund
  BY <1>1, <1>2, <1>3
<1>5. /\ \A q \in Payments : d.pay[q].active <=> d.pay[q].status = "pending"
      /\ \A q \in Payments : d.pay[q].refund => d.pay[q].status \in Moneyed
      /\ \A q \in Payments : d.pay[q].status = "refunded" => d.pay[q].refund
      /\ Ours(d) = {}
  BY <1>0 DEF DbInv, OpenIsOne, OursIsOne
<1>6. d.pay[p].status \notin Moneyed /\ d.pay[p].refund = FALSE
  BY <1>0, <1>5, DbTypes DEF Unpaid, Moneyed
<1>7. \A q \in Payments \ {p} : e.pay[q].status \in Moneyed <=> d.pay[q].status \in Moneyed
  BY <1>4, <1>5 DEF Moneyed
<1>8. Ours(e) = {p} /\ Kept(e) = {p} /\ Returned(e) = Returned(d) /\ p \notin Returned(d)
  BY <1>4, <1>5, <1>6, <1>7 DEF Ours, Kept, Returned, Moneyed
<1>9. Active(e) = {} /\ ~Awaiting(e) /\ \A q \in Payments : e.pay[q].status # "pending"
  BY <1>3, <1>4, <1>5 DEF Active, Awaiting
<1>10. OpenIsOne(e)
  BY <1>3, <1>9 DEF OpenIsOne
<1>11. OursIsOne(e)
  <2>1. /\ \A q \in Payments : e.pay[q].refund => e.pay[q].status \in Moneyed
        /\ \A q \in Payments : e.pay[q].status = "refunded" => e.pay[q].refund
    BY <1>4, <1>5, <1>6, <1>7 DEF Moneyed
  <2> QED
    BY <1>3, <1>8, <1>9, <2>1 DEF OursIsOne
<1>12. ASSUME Recoverable = {TRUE} PROVE FirstPays(e)
  <2>1. d.approvals = <<>>
    BY <1>12 DEF DbInv, FirstPays
  <2>2. e.approvals = <<p>>
    BY <1>3, <2>1
  <2> QED
    BY <1>3, <1>4, <1>8, <2>2 DEF FirstPays, Moneyed
<1>13. Settles(d, e)
  BY <1>3, <1>8 DEF Settles
<1> QED
  BY <1>3, <1>4, <1>6, <1>10, <1>11, <1>12, <1>13 DEF Sound, DbInv

LEMMA ApprovalGoesBack ==
    ASSUME NEW d, DbInv(d), NEW p \in Payments, Unpaid(d, p), ~Awaiting(d),
           Recoverable = {TRUE} => d.order.status # "failed"
    PROVE  Sound(d, [ApprovalOf(d, p) EXCEPT !.pay[p].refund = TRUE])
<1> DEFINE m == ApprovalOf(d, p)
           e == [m EXCEPT !.pay[p].refund = TRUE]
<1> SUFFICES Sound(d, e)
  OBVIOUS
<1>0. d \in Databases
  BY DEF DbInv
<1>1. /\ m \in Databases /\ m.order = d.order /\ m.approvals = Append(d.approvals, p)
      /\ m.pay[p].status = "approved" /\ m.pay[p].active = FALSE
      /\ \A q \in Payments \ {p} : m.pay[q] = d.pay[q]
  BY <1>0, ApprovalIs
<1> HIDE DEF m
<1>2. /\ e \in Databases /\ e.order = d.order /\ e.approvals = Append(d.approvals, p)
      /\ e.pay[p].status = "approved" /\ e.pay[p].active = FALSE /\ e.pay[p].refund = TRUE
      /\ \A q \in Payments \ {p} : e.pay[q] = d.pay[q]
  BY <1>1, AskedIs
<1> HIDE DEF e
<1>3. d.pay[p].status \notin Moneyed
  BY DEF Unpaid, Moneyed
<1>4. Ours(e) = Ours(d) /\ Kept(e) = Kept(d) /\ Returned(e) = Returned(d) \cup {p} /\ p \notin Kept(d)
  BY <1>2, <1>3 DEF Ours, Kept, Returned, Moneyed
<1>5. Active(d) = {} /\ Active(e) = {} /\ ~Awaiting(e)
  <2>1. Active(d) = {}
    BY DEF DbInv, OpenIsOne
  <2> QED
    BY <1>2, <2>1 DEF Active, Awaiting
<1>6. OpenIsOne(e)
  <2>1. \A q \in Payments : e.pay[q].active <=> e.pay[q].status = "pending"
    BY <1>2 DEF DbInv, OpenIsOne
  <2> QED
    BY <1>5, <2>1 DEF OpenIsOne
<1>7. OursIsOne(e)
  <2>1. /\ \A q \in Payments : e.pay[q].refund => e.pay[q].status \in Moneyed
        /\ \A q \in Payments : e.pay[q].status = "refunded" => e.pay[q].refund
    BY <1>2 DEF DbInv, OursIsOne, Moneyed
  <2> QED
    BY <1>2, <1>4, <1>5, <2>1 DEF DbInv, OursIsOne
<1>8. ASSUME Recoverable = {TRUE} PROVE FirstPays(e)
  <2>1. FirstPays(d) /\ d.order.status \in {"confirmed", "cancelled"}
    BY <1>0, <1>8, DbTypes DEF DbInv, Awaiting, OrderStatuses
  <2>2. d.approvals \in Seq(Payments)
    BY <1>0 DEF Databases
  <2>3. \A i \in DOMAIN e.approvals : e.pay[e.approvals[i]].status \in Moneyed
    <3> DEFINE s == d.approvals
    <3>0. \A i \in DOMAIN Append(s, p) : Append(s, p)[i] = p \/ (i \in DOMAIN s /\ Append(s, p)[i] = s[i])
      <4> HIDE DEF s
      <4>1. s \in Seq(Payments)
        BY <2>2 DEF s
      <4>2. \A i \in DOMAIN Append(s, p) : i \in DOMAIN s \/ i = Len(s) + 1
        BY <4>1, AppendProperties
      <4> QED
        BY <4>1, <4>2, AppendProperties
    <3> SUFFICES ASSUME NEW i \in DOMAIN e.approvals
                 PROVE  e.pay[e.approvals[i]].status \in Moneyed
      OBVIOUS
    <3>1. e.approvals[i] = p \/ (i \in DOMAIN d.approvals /\ e.approvals[i] = d.approvals[i])
      BY <1>2, <3>0
    <3>2. i \in DOMAIN d.approvals => d.pay[d.approvals[i]].status \in Moneyed /\ d.approvals[i] \in Payments
      BY <2>1, <2>2 DEF FirstPays
    <3> QED
      BY <1>2, <3>1, <3>2 DEF Moneyed
  <2>4. d.approvals # <<>> => e.approvals # <<>> /\ e.approvals[1] = d.approvals[1]
    BY <1>2, <2>2
  <2> QED
    BY <1>2, <1>4, <2>1, <2>3, <2>4 DEF FirstPays
<1>9. Settles(d, e)
  BY <1>2, <1>4 DEF Settles, Awaiting
<1> QED
  BY <1>2, <1>6, <1>7, <1>8, <1>9 DEF Sound, DbInv

LEMMA ApprovedIsSound ==
    ASSUME NEW d, DbInv(d), NEW p \in Payments, Unpaid(d, p), NEW recover \in Recoverable
    PROVE  Sound(d, Approved(ApprovalOf(d, p), p, recover))
<1> DEFINE m == ApprovalOf(d, p)
<1>0. d \in Databases /\ recover \in BOOLEAN
  BY PaymentsAssumption DEF DbInv
<1>1. m.order = d.order
  BY <1>0, ApprovalIs
<1>2. d.order.status \in {"awaiting_payment", "failed"} => d.order.paid = FALSE
  BY <1>0, DbTypes DEF DbInv, OursIsOne
<1>3. CASE d.order.status = "awaiting_payment" \/ (d.order.status = "failed" /\ recover)
  BY <1>1, <1>2, <1>3, ApprovalPays DEF Approved, Awaiting
<1>4. CASE ~(d.order.status = "awaiting_payment" \/ (d.order.status = "failed" /\ recover))
  <2>1. (Recoverable = {TRUE} => d.order.status # "failed") /\ ~Awaiting(d)
    <3>1. Recoverable = {TRUE} => recover = TRUE
      OBVIOUS
    <3> QED
      BY <1>4, <3>1, Zenon DEF Awaiting
  <2> QED
    <3>1. Sound(d, [m EXCEPT !.pay[p].refund = TRUE])
      BY <2>1, ApprovalGoesBack
    <3>2. ~(Awaiting(m) \/ (m.order.status = "failed" /\ ~m.order.paid /\ recover))
      BY <1>1, <1>4 DEF Awaiting
    <3> HIDE DEF m
    <3>3. Approved(m, p, recover) = [m EXCEPT !.pay[p].refund = TRUE]
      BY <3>2, Zenon DEF Approved
    <3> QED
      BY <3>1, <3>3 DEF m
<1> QED
  BY <1>3, <1>4

\* Nothing about money, and then something.
LEMMA AlikeThen ==
    ASSUME NEW d, DbInv(d), NEW k, Alike(d, k), NEW e, Sound(k, e)
    PROVE  Sound(d, e)
<1>1. Kept(k) = Kept(d) /\ Returned(k) = Returned(d) /\ k.order.status = d.order.status
  BY DEF Alike, SamePayment, Kept, Returned
<1>2. Settles(k, e) => Settles(d, e)
  BY <1>1 DEF Settles
<1> QED
  BY <1>2 DEF Sound, Alike, SamePayment

\* An attempt that the provider refused or closed: its surcharge leaves the total.
LEMMA AttemptEnds ==
    ASSUME NEW d, DbInv(d), NEW p \in Payments, d.pay[p].status = "pending",
           NEW target \in {"rejected", "cancelled"}
    PROVE  Sound(d, ClearSurcharge(MovedTo(d, p, target)))
<1> DEFINE m == MovedTo(d, p, target)
           e == ClearSurcharge(m)
<1> SUFFICES Sound(d, e)
  OBVIOUS
<1>0. d \in Databases /\ target \in PaymentStatus
  BY DEF DbInv, PaymentStatus
<1>1. /\ m \in Databases /\ m.order = d.order /\ m.approvals = d.approvals
      /\ m.pay[p].status = target /\ m.pay[p].active = FALSE
      /\ m.pay[p].refund = d.pay[p].refund
      /\ \A q \in Payments \ {p} : m.pay[q] = d.pay[q]
  BY ZenonT(60), <1>0, MovedToIs
<1> HIDE DEF m
<1>2. d.pay[p].active /\ Active(d) = {p} /\ Awaiting(d) /\ Awaiting(m)
  <2>1. p \in Active(d)
    BY <1>0 DEF DbInv, OpenIsOne, Active
  <2> QED
    BY <1>1, <2>1 DEF DbInv, OpenIsOne, Active, Awaiting
<1>3. /\ e \in Databases /\ e.pay = m.pay /\ e.approvals = d.approvals
      /\ e.order.status = d.order.status /\ e.order.paid = d.order.paid
      /\ e.order.surcharge = 0
  BY <1>1, <1>2 DEF ClearSurcharge, Databases, OrderRows
<1> HIDE DEF e
<1>4. Active(e) = {} /\ Awaiting(e)
  BY <1>1, <1>2, <1>3 DEF Active, Awaiting
<1>5. /\ Ours(e) = Ours(d) /\ Kept(e) = Kept(d) /\ Returned(e) = Returned(d)
  BY <1>1, <1>3 DEF Ours, Kept, Returned, Moneyed
<1>6. OpenIsOne(e)
  <2>1. \A q \in Payments : e.pay[q].active <=> e.pay[q].status = "pending"
    BY <1>0, <1>1, <1>3 DEF DbInv, OpenIsOne
  <2> QED
    BY <1>3, <1>4, <2>1 DEF OpenIsOne
<1>7. OursIsOne(e)
  <2>1. \A q \in Payments : e.pay[q].status \notin Moneyed /\ e.pay[q].refund = d.pay[q].refund
    BY <1>1, <1>2, <1>3 DEF DbInv, OursIsOne, Moneyed
  <2>2. \A q \in Payments : ~d.pay[q].refund
    BY <1>2 DEF DbInv, OursIsOne
  <2> QED
    BY <1>2, <1>3, <1>4, <1>5, <2>1, <2>2 DEF DbInv, OursIsOne, Awaiting, Moneyed
<1>8. ASSUME Recoverable = {TRUE} PROVE FirstPays(e)
  <2>1. d.approvals = <<>>
    BY <1>2, <1>8 DEF DbInv, FirstPays, Awaiting
  <2> QED
    BY <1>2, <1>3, <2>1 DEF FirstPays, Awaiting
<1> QED
  BY <1>1, <1>3, <1>5, <1>6, <1>7, <1>8 DEF Sound, DbInv, Settles

\* Money that was approved leaves again: refunded, where that was asked for, or charged back.
LEMMA MoneyLeaves ==
    ASSUME NEW d, DbInv(d), NEW p \in Payments, d.pay[p].status = "approved",
           NEW target \in {"refunded", "charged_back"}, target = "refunded" => d.pay[p].refund,
           NEW e \in Databases, e.order = d.order, e.approvals = d.approvals,
           e.pay[p].status = target, e.pay[p].active = FALSE, e.pay[p].refund = d.pay[p].refund,
           \A q \in Payments \ {p} : e.pay[q] = d.pay[q]
    PROVE  Sound(d, e)
<1>1. ~Awaiting(d) /\ ~Awaiting(e)
  BY DEF DbInv, OursIsOne, Moneyed, Awaiting
<1>2. Active(d) = {} /\ Active(e) = {}
  <2>1. Active(d) = {}
    BY <1>1 DEF DbInv, OpenIsOne
  <2> QED
    BY <2>1 DEF Active
<1>3. /\ Ours(e) = Ours(d) /\ Returned(e) = Returned(d)
      /\ Kept(e) = Kept(d) \ {p}
  BY DEF Ours, Returned, Kept, Moneyed
<1>4. OpenIsOne(e)
  <2>1. \A q \in Payments : e.pay[q].active <=> e.pay[q].status = "pending"
    BY DEF DbInv, OpenIsOne
  <2> QED
    BY <1>1, <1>2, <2>1 DEF OpenIsOne
<1>5. OursIsOne(e)
  <2>1. /\ \A q \in Payments : e.pay[q].refund => e.pay[q].status \in Moneyed
        /\ \A q \in Payments : e.pay[q].status = "refunded" => e.pay[q].refund
    BY DEF DbInv, OursIsOne, Moneyed
  <2> QED
    BY <1>1, <1>3, <2>1 DEF DbInv, OursIsOne
<1>6. ASSUME Recoverable = {TRUE} PROVE FirstPays(e)
  <2>1. FirstPays(d)
    BY <1>6 DEF DbInv
  <2>2. \A i \in DOMAIN d.approvals : d.approvals[i] \in Payments
    BY DEF DbInv, Databases
  <2>3. \A i \in DOMAIN e.approvals : e.pay[e.approvals[i]].status \in Moneyed
    BY <2>1, <2>2 DEF FirstPays, Moneyed
  <2> QED
    BY <1>3, <2>1, <2>3 DEF FirstPays
<1> QED
  BY <1>3, <1>4, <1>5, <1>6 DEF Sound, DbInv, Settles

LEMMA MovedLeaves ==
    ASSUME NEW d, DbInv(d), NEW p \in Payments, d.pay[p].status = "approved",
           NEW target \in {"refunded", "charged_back"}, target = "refunded" => p \in Returned(d)
    PROVE  Sound(d, ClearSurcharge(MovedTo(d, p, target)))
<1> DEFINE m == MovedTo(d, p, target)
<1>1. d \in Databases /\ target \in PaymentStatus
  BY DEF DbInv, PaymentStatus
<1>2. /\ m \in Databases /\ m.order = d.order /\ m.approvals = d.approvals
      /\ m.pay[p].status = target /\ m.pay[p].active = FALSE
      /\ m.pay[p].refund = d.pay[p].refund
      /\ \A q \in Payments \ {p} : m.pay[q] = d.pay[q]
  BY ZenonT(60), <1>1, MovedToIs
<1> HIDE DEF m
<1>3. ~Awaiting(d)
  BY DEF DbInv, OursIsOne, Moneyed
<1>4. ClearSurcharge(m) = m
  BY <1>2, <1>3 DEF ClearSurcharge, Awaiting
<1>5. Sound(d, m)
  BY ZenonT(60), <1>2, MoneyLeaves DEF Returned
<1> QED
  BY <1>4, <1>5 DEF m

LEMMA AppliedIsSound ==
    ASSUME NEW d, DbInv(d), NEW p \in Payments, NEW a \in Charge, NEW recover \in Recoverable,
           a = "refunded" => d.pay[p].refund
    PROVE  Sound(d, Applied(d, p, a, recover))
<1> DEFINE k == Known(d, p, a)
           target == TargetOf(a)
           e == Applied(d, p, a, recover)
<1> SUFFICES Sound(d, e)
  OBVIOUS
<1>0. d \in Databases
  BY DEF DbInv
<1>1. Alike(d, k)
  BY <1>0, KnownIs
<1>2. DbInv(k)
  BY <1>1, AlikeIsSound DEF Sound
<1>3. k.pay[p].status = d.pay[p].status /\ k.pay[p].refund = d.pay[p].refund
  BY <1>1 DEF Alike, SamePayment
<1>4. CASE ~Changes(d, p, a)
  <2>1. e = k
    BY <1>4 DEF Applied, Known
  <2> QED
    BY <1>1, <2>1, AlikeIsSound
<1>5. CASE Changes(d, p, a) /\ target = "approved"
  <2>1. e = Approved(ApprovalOf(k, p), p, recover)
    BY <1>5 DEF Applied, Known, ApprovalOf, MovedTo
  <2>2. Unpaid(k, p)
    BY <1>3, <1>5, StatusMoves DEF Unpaid, Changes, Moneyed
  <2> HIDE DEF e, k
  <2>3. Sound(k, e)
    BY <1>2, <2>1, <2>2, ApprovedIsSound
  <2> QED
    BY <1>1, <2>3, AlikeThen
<1>6. CASE Changes(d, p, a) /\ target # "approved"
  <2>1. e = ClearSurcharge(MovedTo(k, p, target))
    BY <1>6 DEF Applied, Known, MovedTo
  <2> HIDE DEF e, k
  <2>2. Sound(k, e)
    <3>1. target \in {"pending", "rejected", "cancelled", "refunded", "charged_back"}
      BY <1>6, StatusMoves
    <3>2. CanTransition(d.pay[p].status, target)
      BY <1>6 DEF Changes
    <3>3. CASE target \in {"rejected", "cancelled"}
      <4>1. k.pay[p].status = "pending"
        BY <1>3, <3>2, <3>3, StatusMoves
      <4> HIDE DEF target
      <4> QED
        BY <1>2, <2>1, <3>3, <4>1, AttemptEnds
    <3>4. CASE target \in {"refunded", "charged_back"}
      <4>1. k.pay[p].status = "approved" /\ (target = "refunded" => k.pay[p].refund)
        BY <1>3, <3>2, <3>4, StatusMoves
      <4> HIDE DEF target
      <4> QED
        BY <1>2, <2>1, <3>4, <4>1, MovedLeaves DEF Returned
    <3>5. target # "pending"
      BY <3>2, StatusMoves
    <3> QED
      BY <3>1, <3>3, <3>4, <3>5
  <2> QED
    BY <1>1, <2>2, AlikeThen
<1> QED
  BY <1>4, <1>5, <1>6

-----------------------------------------------------------------------------
(* The other transactions *)

LEMMA ThenAlike ==
    ASSUME NEW d, NEW k, Sound(d, k), NEW e, Alike(k, e)
    PROVE  Sound(d, e)
<1>1. Kept(e) = Kept(k) /\ Returned(e) = Returned(k) /\ e.order.status = k.order.status
  BY DEF Alike, SamePayment, Kept, Returned
<1>2. Settles(d, k) => Settles(d, e)
  BY <1>1 DEF Settles
<1>3. DbInv(e)
  BY AlikeIsSound DEF Sound
<1> QED
  BY <1>2, <1>3 DEF Sound, Alike, SamePayment

LEMMA AlikeItself ==
    ASSUME NEW d \in Databases
    PROVE  Alike(d, d)
BY DEF Alike, SamePayment

LEMMA RowAlike ==
    ASSUME NEW d \in Databases, NEW p \in Payments, NEW row \in Rows,
           row.status = d.pay[p].status, row.active = d.pay[p].active,
           row.refund = d.pay[p].refund, row.amount = d.pay[p].amount
    PROVE  Alike(d, [d EXCEPT !.pay[p] = row])
<1> DEFINE e == [d EXCEPT !.pay[p] = row]
<1>1. /\ e \in Databases /\ e.order = d.order /\ e.approvals = d.approvals
      /\ e.pay[p] = row /\ \A q \in Payments \ {p} : e.pay[q] = d.pay[q]
  BY RowIs
<1> HIDE DEF e
<1>2. Alike(d, e)
  BY <1>1 DEF Alike, SamePayment
<1> QED
  BY <1>2 DEF e

\* `_schedule`: the number of checks and whether there is a next one.
LEMMA PlannedIsAlike ==
    ASSUME NEW d \in Databases, NEW p \in Payments, NEW n \in Nat, NEW more \in BOOLEAN
    PROVE  Alike(d, [d EXCEPT !.pay[p].attempts = n, !.pay[p].check = more])
<1> DEFINE row == [d.pay[p] EXCEPT !.attempts = n, !.check = more]
<1>1. /\ row \in Rows /\ row.status = d.pay[p].status /\ row.active = d.pay[p].active
      /\ row.refund = d.pay[p].refund /\ row.amount = d.pay[p].amount
  BY DbTypes DEF Rows
<1>2. [d EXCEPT !.pay[p].attempts = n, !.pay[p].check = more] = [d EXCEPT !.pay[p] = row]
  BY DEF Databases
<1> HIDE DEF row
<1> QED
  BY <1>1, <1>2, RowAlike

LEMMA ScheduledIsAlike ==
    ASSUME NEW d \in Databases, NEW p \in Payments, NEW failed
    PROVE  Alike(d, Scheduled(d, p, failed))
<1> DEFINE tries == d.pay[p].attempts + 1
           open == tries < MaxChecks
           ours == tries < MaxCancels
           done == [d.pay[p] EXCEPT !.check = FALSE]
<1>1. tries \in Nat
  BY DEF Databases, Rows
<1>2. Scheduled(d, p, failed) \in
          {[d EXCEPT !.pay[p].attempts = tries, !.pay[p].check = open],
           [d EXCEPT !.pay[p].attempts = tries, !.pay[p].check = ours],
           [d EXCEPT !.pay[p].check = FALSE]}
  BY Zenon DEF Scheduled
<1>3. open \in BOOLEAN /\ ours \in BOOLEAN
  OBVIOUS
<1> HIDE DEF tries, open, ours
<1>4. /\ Alike(d, [d EXCEPT !.pay[p].attempts = tries, !.pay[p].check = open])
      /\ Alike(d, [d EXCEPT !.pay[p].attempts = tries, !.pay[p].check = ours])
  BY <1>1, <1>3, PlannedIsAlike, Zenon
<1>5. Alike(d, [d EXCEPT !.pay[p].check = FALSE])
  <2>1. /\ done \in Rows /\ done.status = d.pay[p].status /\ done.active = d.pay[p].active
        /\ done.refund = d.pay[p].refund /\ done.amount = d.pay[p].amount
    BY DbTypes DEF Rows
  <2>2. [d EXCEPT !.pay[p].check = FALSE] = [d EXCEPT !.pay[p] = done]
    BY DEF Databases
  <2> HIDE DEF done
  <2> QED
    BY <2>1, <2>2, RowAlike
<1> QED
  BY <1>2, <1>4, <1>5, Zenon

LEMMA DeadlineIsAlike ==
    ASSUME NEW d \in Databases, NEW a, NEW later
    PROVE  Alike(d, DeadlineExtended(d, a, later))
<1> DEFINE e == [d EXCEPT !.order.clock = "ahead", !.order.extended = TRUE]
<1>1. /\ e \in Databases /\ e.pay = d.pay /\ e.approvals = d.approvals
      /\ e.order.status = d.order.status /\ e.order.paid = d.order.paid
      /\ e.order.surcharge = d.order.surcharge
  BY DEF Databases, OrderRows
<1>2. Alike(d, e)
  BY <1>1 DEF Alike, SamePayment
<1>3. DeadlineExtended(d, a, later) = d \/ DeadlineExtended(d, a, later) = e
  BY DEF DeadlineExtended
<1> QED
  BY <1>2, <1>3, AlikeItself

\* `create`: the row of a payment that was never started, the only open one.
LEMMA StartIsSound ==
    ASSUME NEW d, DbInv(d), NEW p \in Payments, NEW surcharge \in Surcharges,
           d.pay[p].status = "none", Awaiting(d), Active(d) = {}
    PROVE  Sound(d, [d EXCEPT !.order.surcharge = surcharge,
                              !.pay[p] = [NoRow EXCEPT !.status = "pending", !.active = TRUE,
                                                       !.check = TRUE, !.amount = surcharge]])
<1> DEFINE row == [NoRow EXCEPT !.status = "pending", !.active = TRUE, !.check = TRUE, !.amount = surcharge]
           c == [d EXCEPT !.order.surcharge = surcharge]
           e == [c EXCEPT !.pay[p] = row]
<1>0. d \in Databases /\ surcharge \in Nat
  BY PaymentsAssumption DEF DbInv
<1>1. /\ row \in Rows /\ row.status = "pending" /\ row.active = TRUE /\ row.refund = FALSE
      /\ row.amount = surcharge
  BY <1>0 DEF NoRow, Rows, PaymentStatus
<1>2. /\ c \in Databases /\ c.pay = d.pay /\ c.approvals = d.approvals
      /\ c.order.status = d.order.status /\ c.order.paid = d.order.paid /\ c.order.surcharge = surcharge
  BY <1>0 DEF Databases, OrderRows
<1> SUFFICES Sound(d, e)
  OBVIOUS
<1> HIDE DEF row, c
<1>3. /\ e \in Databases /\ e.order = c.order /\ e.approvals = d.approvals
      /\ e.pay[p] = row /\ \A q \in Payments \ {p} : e.pay[q] = d.pay[q]
  BY <1>1, <1>2, RowIs
<1> HIDE DEF e
<1>4. d.pay[p].refund = FALSE /\ \A q \in Payments : d.pay[q].status \notin Moneyed
  BY <1>0, DbTypes DEF DbInv, OursIsOne, Moneyed
<1>5. Active(e) = {p} /\ Awaiting(e)
  BY <1>1, <1>2, <1>3 DEF Active, Awaiting
<1>6. \A q \in Payments : e.pay[q].status \notin Moneyed /\ e.pay[q].refund = d.pay[q].refund
  BY <1>1, <1>3, <1>4 DEF Moneyed
<1>7. Ours(e) = {} /\ Ours(d) = {} /\ Kept(e) = {} /\ Kept(d) = {} /\ Returned(e) = Returned(d)
  BY <1>4, <1>6 DEF Ours, Kept, Returned, Moneyed
<1>8. OpenIsOne(e)
  <2>1. \A q \in Payments : e.pay[q].active <=> e.pay[q].status = "pending"
    BY <1>1, <1>3 DEF DbInv, OpenIsOne
  <2> QED
    BY <1>1, <1>2, <1>3, <1>5, <2>1 DEF OpenIsOne
<1>9. OursIsOne(e)
  <2>1. \A q \in Payments : ~e.pay[q].refund
    BY <1>4, <1>6 DEF DbInv, OursIsOne
  <2>2. e.order.status = "awaiting_payment" /\ ~e.order.paid
    BY <1>2, <1>3 DEF DbInv, OursIsOne, Awaiting
  <2> QED
    BY <1>6, <1>7, <2>1, <2>2 DEF OursIsOne, Moneyed
<1>10. ASSUME Recoverable = {TRUE} PROVE FirstPays(e)
  <2>1. d.approvals = <<>>
    BY <1>10 DEF DbInv, FirstPays, Awaiting
  <2> QED
    BY <1>3, <1>5, <2>1 DEF FirstPays, Awaiting
<1>11. Settles(d, e)
  BY <1>2, <1>3, <1>7 DEF Settles
<1> QED
  BY <1>3, <1>6, <1>8, <1>9, <1>10, <1>11 DEF Sound, DbInv

LEMMA RecordedIsSound ==
    ASSUME NEW d, DbInv(d), NEW p \in Payments, d.pay[p].status = "approved", d.pay[p].refund
    PROVE  Sound(d, [d EXCEPT !.pay[p].status = "refunded"])
<1> DEFINE row == [d.pay[p] EXCEPT !.status = "refunded"]
           e == [d EXCEPT !.pay[p] = row]
<1>0. d \in Databases /\ d.pay[p].active = FALSE
  BY DbTypes DEF DbInv, OpenIsOne
<1>1. /\ row \in Rows /\ row.status = "refunded" /\ row.active = FALSE /\ row.refund = d.pay[p].refund
  BY <1>0, DbTypes DEF Rows, PaymentStatus
<1>2. [d EXCEPT !.pay[p].status = "refunded"] = e
  BY <1>0 DEF Databases
<1> HIDE DEF row
<1>3. /\ e \in Databases /\ e.order = d.order /\ e.approvals = d.approvals
      /\ e.pay[p] = row /\ \A q \in Payments \ {p} : e.pay[q] = d.pay[q]
  BY <1>0, <1>1, RowIs
<1> HIDE DEF e
<1> QED
  BY ZenonT(60), <1>1, <1>2, <1>3, MoneyLeaves

-----------------------------------------------------------------------------
(* Charges, notices and calls *)

Side ==
    /\ charge \in [Payments -> Charge]
    /\ notices \subseteq Payments
    /\ call \in [Callers -> Calls]
    /\ \A c \in Callers : CallOK(c)
    /\ RefundsWereAsked

\* No request of a refund is taken back, and the provider gives back what was asked for.
GoesOn ==
    /\ \A p \in Payments : db.pay[p].refund => db'.pay[p].refund
    /\ charge' \in [Payments -> Charge]
    /\ \A p \in Payments : charge'[p] = "refunded" => charge[p] = "refunded" \/ db'.pay[p].refund
    /\ notices' \subseteq Payments

\* A call as its caller may hold it.
GoodCall(c, new) ==
    /\ new \in Calls
    /\ c # "expiry" => new.pay \in Payments \/ new = Idle
    /\ new.stage \in {"sent", "answered"} => new.pay \in Payments
    /\ new.stage = "answered" /\ new.answer = "refunded" => db'.pay[new.pay].refund

LEMMA SideGoesOn ==
    ASSUME Side, GoesOn, NEW c \in Callers, NEW new, GoodCall(c, new), call' = [call EXCEPT ![c] = new]
    PROVE  Side'
<1>1. call' \in [Callers -> Calls] /\ call'[c] = new /\ \A x \in Callers \ {c} : call'[x] = call[x]
  BY DEF Side, GoodCall
<1>2. new.answer \in Charge \cup {"error"}
  BY DEF GoodCall, Calls
<1>3. \A x \in Callers : CallOK(x)'
  BY <1>1, <1>2 DEF Side, CallOK, GoodCall
<1>4. RefundsWereAsked'
  <2>1. \A p \in Payments : charge'[p] = "refunded" => db'.pay[p].refund
    BY DEF Side, RefundsWereAsked, GoesOn
  <2>2. ASSUME NEW x \in Callers, call'[x].stage = "answered", call'[x].answer = "refunded"
        PROVE  db'.pay[call'[x].pay].refund
    <3>1. CASE x = c
      BY <1>1, <2>2, <3>1 DEF GoodCall
    <3>2. CASE x # c
      BY <1>1, <2>2, <3>2 DEF Side, CallOK, RefundsWereAsked, GoesOn
    <3> QED
      BY <3>1, <3>2
  <2> QED
    BY <2>1, <2>2 DEF RefundsWereAsked
<1> QED
  BY <1>1, <1>3, <1>4 DEF Side, GoesOn

LEMMA SideStays ==
    ASSUME Side, GoesOn, UNCHANGED call
    PROVE  Side'
<1>1. \A x \in Callers : CallOK(x)'
  BY DEF Side, CallOK
<1>2. RefundsWereAsked'
  BY DEF Side, CallOK, RefundsWereAsked, GoesOn
<1> QED
  BY <1>1, <1>2 DEF Side, GoesOn

LEMMA SentIsGood ==
    ASSUME NEW c \in Callers, NEW p \in Payments, NEW what \in {"create", "fetch", "lookup", "cancel"}
    PROVE  GoodCall(c, Call(what, p, "sent", "none"))
BY DEF GoodCall, Call, Calls, Charge

LEMMA IdleIsGood == \A c : GoodCall(c, Idle)
BY DEF GoodCall, Idle, Call, Calls, Charge

\* The provider's side of a step: the charge of one payment becomes something.
LEMMA ChargeGoesOn ==
    ASSUME Side, NEW p \in Payments, NEW state \in Charge, ChargeBecomes(p, state),
           \A q \in Payments : db.pay[q].refund => db'.pay[q].refund,
           state = "refunded" => p \in {q \in Payments : db'.pay[q].refund}
    PROVE  GoesOn
<1>1. charge' \in [Payments -> Charge] /\ charge'[p] = state /\ \A q \in Payments \ {p} : charge'[q] = charge[q]
  BY DEF Side, ChargeBecomes
<1>2. notices' \subseteq Payments
  BY DEF Side, ChargeBecomes
<1> QED
  BY <1>1, <1>2 DEF GoesOn

LEMMA NothingGoesOn ==
    ASSUME Side, UNCHANGED charge, notices' \subseteq Payments,
           \A q \in Payments : db.pay[q].refund => db'.pay[q].refund
    PROVE  GoesOn
BY DEF Side, GoesOn

\* A call that is answered, or given up, with an answer that is not "refunded" unless it was asked for.
LEMMA AnsweredIsGood ==
    ASSUME Side, NEW c \in Callers, call[c].stage \in {"sent", "answered"}, NEW a \in Charge \cup {"error"},
           a = "refunded" => call[c].pay \in {q \in Payments : db'.pay[q].refund}
    PROVE  GoodCall(c, [call[c] EXCEPT !.stage = "answered", !.answer = a])
<1>1. call[c] \in Calls /\ call[c].pay \in Payments
  BY DEF Side, CallOK
<1> QED
  BY <1>1 DEF GoodCall, Calls

-----------------------------------------------------------------------------
(* The steps *)

LEMMA DbStays ==
    ASSUME DbInv(db), db' = db
    PROVE  Sound(db, db')
BY AlikeItself, AlikeIsSound DEF DbInv

\* A transaction of its own, with no call.
LEMMA TransactionStep ==
    ASSUME Side, Sound(db, db'), UNCHANGED <<charge, notices, call>>
    PROVE  Side'
<1>1. GoesOn
  BY NothingGoesOn DEF Sound, Side
<1> QED
  BY <1>1, SideStays

\* A caller that goes on, or is done, with nothing new at the provider.
LEMMA CallerStep ==
    ASSUME Side, Sound(db, db'), UNCHANGED charge, notices' \subseteq Payments,
           NEW c \in Callers, NEW new, GoodCall(c, new), call' = [call EXCEPT ![c] = new]
    PROVE  Side'
<1>1. GoesOn
  BY NothingGoesOn DEF Sound
<1> QED
  BY <1>1, SideGoesOn

\* A charge that changes by itself.
LEMMA ChargeStep ==
    ASSUME DbInv(db), Side, NEW p \in Payments, NEW state \in Charge, ChargeBecomes(p, state),
           state = "refunded" => p \in Returned(db), UNCHANGED <<db, call>>
    PROVE  Sound(db, db') /\ Side'
<1>1. Sound(db, db')
  BY DbStays
<1>2. GoesOn
  BY ChargeGoesOn DEF Returned
<1> QED
  BY <1>1, <1>2, SideStays

LEMMA StartStep ==
    ASSUME DbInv(db), Side, NEW p \in Payments, NEW surcharge \in Surcharges, Start(p, surcharge)
    PROVE  Sound(db, db') /\ Side'
<1>1. Sound(db, db')
  BY StartIsSound DEF Start
<1>2. p \in Callers /\ GoodCall(p, Call("create", p, "sent", "none"))
  BY SentIsGood DEF Callers
<1>3. notices' \subseteq Payments
  BY DEF Start, Side
<1> QED
  BY <1>1, <1>2, <1>3, CallerStep DEF Start, Sent

LEMMA RetryStep ==
    ASSUME DbInv(db), Side, NEW p \in Payments, Retry(p)
    PROVE  Sound(db, db') /\ Side'
<1>1. Sound(db, db')
  BY DbStays DEF Retry
<1>2. p \in Callers /\ GoodCall(p, Call("create", p, "sent", "none"))
  BY SentIsGood DEF Callers
<1>3. notices' \subseteq Payments
  BY DEF Retry, Side
<1> QED
  BY <1>1, <1>2, <1>3, CallerStep DEF Retry, Sent

LEMMA GiveUpStep ==
    ASSUME DbInv(db), Side, NEW p \in Payments, GiveUp(p)
    PROVE  Sound(db, db') /\ Side'
<1>1. Sound(db, db')
  BY CloseIsSound DEF GiveUp
<1> QED
  BY <1>1, TransactionStep DEF GiveUp

LEMMA CancelStep ==
    ASSUME DbInv(db), Side, CancelOrder
    PROVE  Sound(db, db') /\ Side'
<1>1. Sound(db, db')
  <2>1. CASE Awaiting(db)
    BY <2>1, UnpaidEnds DEF CancelOrder
  <2>2. CASE ~Awaiting(db)
    BY <2>2, PaidCancelled DEF CancelOrder, Awaiting
  <2> QED
    BY <2>1, <2>2
<1> QED
  BY <1>1, TransactionStep DEF CancelOrder

LEMMA TimeStep ==
    ASSUME DbInv(db), Side, TimePasses
    PROVE  Sound(db, db') /\ Side'
<1>1. Alike(db, db')
  BY DEF TimePasses, DbInv, Databases, OrderRows, Alike, SamePayment
<1>2. Sound(db, db')
  BY <1>1, AlikeIsSound
<1> QED
  BY <1>2, TransactionStep DEF TimePasses

LEMMA NoticeStep ==
    ASSUME DbInv(db), Side, NEW p \in Payments, "webhook" \in Jobs, ProcessNotice(p)
    PROVE  Sound(db, db') /\ Side'
<1> DEFINE what == IF db.pay[p].id THEN "fetch" ELSE "lookup"
<1>1. Sound(db, db')
  BY DbStays DEF ProcessNotice
<1>2. what \in {"create", "fetch", "lookup", "cancel"}
  OBVIOUS
<1>3. call' = [call EXCEPT !["webhook"] = Call(what, p, "sent", "none")]
  BY DEF ProcessNotice, Sent
<1> HIDE DEF what
<1>4. "webhook" \in Callers /\ GoodCall("webhook", Call(what, p, "sent", "none"))
  BY <1>2, SentIsGood DEF Callers
<1>5. notices' \subseteq Payments
  BY DEF ProcessNotice, Side
<1> QED
  BY <1>1, <1>3, <1>4, <1>5, CallerStep DEF ProcessNotice

LEMMA ReconcileStep ==
    ASSUME DbInv(db), Side, NEW p \in Payments, "reconcile" \in Jobs, Reconcile(p)
    PROVE  Sound(db, db') /\ Side'
<1> DEFINE what == IF db.pay[p].status = "pending" THEN "fetch" ELSE "cancel"
<1>1. Sound(db, db')
  BY DbStays DEF Reconcile
<1>2. what \in {"create", "fetch", "lookup", "cancel"}
  OBVIOUS
<1>3. call' = [call EXCEPT !["reconcile"] = Call(what, p, "sent", "none")]
  BY DEF Reconcile, Sent
<1> HIDE DEF what
<1>4. "reconcile" \in Callers /\ GoodCall("reconcile", Call(what, p, "sent", "none"))
  BY <1>2, SentIsGood DEF Callers
<1>5. notices' \subseteq Payments
  BY DEF Reconcile, Side
<1> QED
  BY <1>1, <1>3, <1>4, <1>5, CallerStep DEF Reconcile

LEMMA ExpiryStartsStep ==
    ASSUME DbInv(db), Side, "expiry" \in Jobs, ExpiryStarts
    PROVE  Sound(db, db') /\ Side'
<1>1. Sound(db, db')
  BY DbStays DEF ExpiryStarts
<1>2. "expiry" \in Callers /\ notices' \subseteq Payments
  BY DEF Callers, ExpiryStarts, Side
<1>3. GoodCall("expiry", Call("fetch", NoPayment, "settled", "none"))
  BY DEF GoodCall, Call, Calls, Charge
<1>4. \A p \in Active(db) : GoodCall("expiry", Call("fetch", p, "sent", "none"))
  BY <1>2, SentIsGood DEF Active
<1>5. CASE Active(db) = {}
  BY <1>1, <1>2, <1>3, <1>5, CallerStep DEF ExpiryStarts
<1>6. CASE Active(db) # {}
  <2>1. PICK p \in Active(db) : Sent("expiry", "fetch", p)
    BY <1>6 DEF ExpiryStarts
  <2> QED
    BY <1>1, <1>2, <1>4, <2>1, CallerStep DEF ExpiryStarts, Sent
<1> QED
  BY <1>5, <1>6

LEMMA ExpiryDecidesStep ==
    ASSUME DbInv(db), Side, ExpiryDecides
    PROVE  Sound(db, db') /\ Side'
<1> DEFINE new == IF Awaiting(db) /\ (Active(db) = {} \/ db.order.clock = "over")
                  THEN [call["expiry"] EXCEPT !.stage = "settled"] ELSE Idle
<1>1. Sound(db, db')
  BY DbStays DEF ExpiryDecides
<1>2. "expiry" \in Callers /\ notices' \subseteq Payments
  BY DEF Callers, ExpiryDecides, Side
<1>3. GoodCall("expiry", [call["expiry"] EXCEPT !.stage = "settled"])
  BY <1>2 DEF GoodCall, Calls, Side
<1>4. GoodCall("expiry", new)
  BY <1>3, IdleIsGood
<1>5. call' = [call EXCEPT !["expiry"] = new]
  BY DEF ExpiryDecides
<1> HIDE DEF new
<1> QED
  BY <1>1, <1>2, <1>4, <1>5, CallerStep DEF ExpiryDecides

LEMMA ExpiryEndsStep ==
    ASSUME DbInv(db), Side, ExpiryEnds
    PROVE  Sound(db, db') /\ Side'
<1>1. Sound(db, db')
  BY ExpiredIsSound DEF ExpiryEnds
<1>2. "expiry" \in Callers /\ notices' \subseteq Payments
  BY DEF Callers, ExpiryEnds, Side
<1> QED
  BY <1>1, <1>2, IdleIsGood, CallerStep DEF ExpiryEnds

\* The customer pays, the provider closes its code, the bank disputes: the charge changes,
\* and the provider gives back only where a refund was asked for.
LEMMA ProviderStep ==
    ASSUME DbInv(db), Side, NEW p \in Payments,
           CustomerPays(p) \/ ProviderCloses(p) \/ ChargedBack(p) \/ RefundAtProvider(p)
    PROVE  Sound(db, db') /\ Side'
<1>1. CASE CustomerPays(p)
  BY <1>1, ChargeStep DEF CustomerPays, Charge
<1>2. CASE ProviderCloses(p)
  BY <1>2, ChargeStep DEF ProviderCloses, Charge
<1>3. CASE ChargedBack(p)
  BY <1>3, ChargeStep DEF ChargedBack, Charge
<1>4. CASE RefundAtProvider(p)
  <2>1. p \in Returned(db)
    BY <1>4 DEF RefundAtProvider, Returned
  <2> QED
    BY <1>4, <2>1, ChargeStep DEF RefundAtProvider, Charge
<1> QED
  BY <1>1, <1>2, <1>3, <1>4

LEMMA RefundRecordedStep ==
    ASSUME DbInv(db), Side, NEW p \in Payments, RefundRecorded(p)
    PROVE  Sound(db, db') /\ Side'
<1>1. Sound(db, db')
  BY RecordedIsSound DEF RefundRecorded
<1> QED
  BY <1>1, TransactionStep DEF RefundRecorded

\* The provider answers with the state the charge then is in.
LEMMA HandleStep ==
    ASSUME DbInv(db), Side, NEW c \in Callers, Handle(c)
    PROVE  Sound(db, db') /\ Side'
<1> DEFINE p == call[c].pay
<1>1. Sound(db, db')
  BY DbStays DEF Handle
<1>2. p \in Payments /\ call[c].stage \in {"sent", "answered"}
  BY DEF Handle, Side, CallOK
<1>3. UNCHANGED db
  BY DEF Handle
<1>4. ASSUME NEW a \in Charge, Answered(c, a), a = "refunded" => p \in Returned(db), GoesOn
      PROVE  Side'
  <2>1. GoodCall(c, [call[c] EXCEPT !.stage = "answered", !.answer = a])
    BY <1>2, <1>3, <1>4, AnsweredIsGood DEF Returned
  <2>2. call' = [call EXCEPT ![c] = [call[c] EXCEPT !.stage = "answered", !.answer = a]]
    BY <1>4 DEF Answered, Side, Calls
  <2> QED
    BY <1>4, <2>1, <2>2, SideGoesOn
<1>5. ASSUME NEW a \in Charge \ {"refunded"}, ChargeBecomes(p, a), Answered(c, a)
      PROVE  Side'
  <2>1. GoesOn
    BY <1>2, <1>3, <1>5, ChargeGoesOn
  <2> QED
    BY <1>4, <1>5, <2>1
<1>6. ASSUME Answered(c, charge[p]), UNCHANGED <<charge, notices>>
      PROVE  Side'
  <2>1. charge[p] \in Charge /\ (charge[p] = "refunded" => p \in Returned(db))
    BY <1>2 DEF Side, RefundsWereAsked, Returned
  <2>2. GoesOn
    BY <1>3, <1>6, NothingGoesOn DEF Side
  <2> QED
    BY <1>4, <1>6, <2>1, <2>2
<1>7. /\ "open" \in Charge \ {"refunded"} /\ "paid" \in Charge \ {"refunded"}
      /\ "refused" \in Charge \ {"refunded"} /\ "cancelled" \in Charge \ {"refunded"}
  BY DEF Charge
<1>8. \/ \E a \in {"open", "paid", "refused"} : ChargeBecomes(p, a) /\ Answered(c, a)
      \/ ChargeBecomes(p, "cancelled") /\ Answered(c, "cancelled")
      \/ Answered(c, charge[p]) /\ UNCHANGED <<charge, notices>>
  BY DEF Handle
<1> HIDE DEF p
<1> QED
  BY <1>1, <1>5, <1>6, <1>7, <1>8

\* What the caller does with its answer, whatever happened meanwhile.
LEMMA FinishIsSound ==
    ASSUME DbInv(db), Side, NEW c \in Callers, call[c].stage = "answered",
           NEW recover \in Recoverable, NEW later
    PROVE  Sound(db, AfterAnswer(c, recover, later))
<1> DEFINE p == call[c].pay
           a == call[c].answer
           k == DeadlineExtended(db, a, later)
<1>1. p \in Payments /\ a \in Charge \cup {"error"}
  BY DEF Side, CallOK, Calls
<1>2. a = "refunded" => p \in Returned(db)
  BY <1>1 DEF Side, RefundsWereAsked, Returned
<1>3. CASE AfterAnswer(c, recover, later) = db
  BY <1>3, AlikeItself, AlikeIsSound DEF DbInv
<1>4. CASE a \in Charge /\ AfterAnswer(c, recover, later) = Applied(k, p, a, recover)
  <2>1. Alike(db, k)
    BY DeadlineIsAlike DEF DbInv
  <2> HIDE DEF k, p, a
  <2>2. DbInv(k) /\ (a = "refunded" => k.pay[p].refund)
    BY <1>1, <1>2, <2>1, AlikeIsSound DEF Sound, Returned
  <2>3. Sound(k, Applied(k, p, a, recover))
    BY <1>1, <1>4, <2>2, AppliedIsSound
  <2> QED
    BY <1>4, <2>1, <2>3, AlikeThen
<1> QED
  BY <1>1, <1>3, <1>4 DEF AfterAnswer, Failed

LEMMA FinishStep ==
    ASSUME DbInv(db), Side, NEW c \in Callers, Finish(c)
    PROVE  Sound(db, db') /\ Side'
<1>1. call[c].stage = "answered" /\ call[c].pay \in Payments
  BY DEF Finish, Side, CallOK
<1>2. Sound(db, db')
  <2>1. PICK recover \in Recoverable, later \in BOOLEAN :
           LET applied == AfterAnswer(c, recover, later)
           IN db' = IF c = "reconcile" THEN Scheduled(applied, call[c].pay, Failed(c)) ELSE applied
    BY DEF Finish
  <2> DEFINE k == AfterAnswer(c, recover, later)
  <2>2. Sound(db, k)
    BY <1>1, FinishIsSound
  <2>3. db' = k \/ db' = Scheduled(k, call[c].pay, Failed(c))
    BY <2>1
  <2> HIDE DEF k
  <2>4. CASE db' = Scheduled(k, call[c].pay, Failed(c))
    <3>1. Alike(k, db')
      BY <1>1, <2>2, <2>4, ScheduledIsAlike DEF Sound, DbInv
    <3> QED
      BY <2>2, <3>1, ThenAlike
  <2> QED
    BY <2>2, <2>3, <2>4
<1> DEFINE new == IF c = "expiry" THEN [call[c] EXCEPT !.stage = "applied"] ELSE Idle
<1>3. call' = [call EXCEPT ![c] = new]
  BY DEF Finish
<1>4. GoodCall(c, new)
  <2>1. GoodCall(c, [call[c] EXCEPT !.stage = "applied"])
    BY <1>1 DEF GoodCall, Calls, Side
  <2> QED
    BY <2>1, IdleIsGood
<1> HIDE DEF new
<1>5. notices' \subseteq Payments
  BY <1>1 DEF Finish, NoticesAfter, Side
<1> QED
  BY <1>2, <1>3, <1>4, <1>5, CallerStep DEF Finish

LEMMA LostStep ==
    ASSUME DbInv(db), Side, NEW c \in Callers, Lost(c)
    PROVE  Sound(db, db') /\ Side'
<1>1. Sound(db, db')
  BY DbStays DEF Lost
<1>2. GoodCall(c, [call[c] EXCEPT !.stage = "answered", !.answer = "error"])
  BY AnsweredIsGood DEF Lost
<1>3. call' = [call EXCEPT ![c] = [call[c] EXCEPT !.stage = "answered", !.answer = "error"]]
  BY DEF Lost, Answered, Side, Calls
<1>4. notices' \subseteq Payments
  BY DEF Lost, Side
<1> QED
  BY <1>1, <1>2, <1>3, <1>4, CallerStep DEF Lost

LEMMA CrashStep ==
    ASSUME DbInv(db), Side, NEW c \in Callers, Crash(c)
    PROVE  Sound(db, db') /\ Side'
<1>1. Sound(db, db')
  BY DbStays DEF Crash
<1>2. c = "webhook" => call[c].pay \in Payments
  BY DEF Crash, Side, CallOK
<1>3. notices' \subseteq Payments
  BY <1>2 DEF Crash, Side
<1> QED
  BY <1>1, <1>3, IdleIsGood, CallerStep DEF Crash

-----------------------------------------------------------------------------
(* The invariant *)

\* What holds of the database, the charges and the calls is all of the invariant.
LEMMA Parts == IInv <=> DbInv(db) /\ Side
BY DEF IInv, TypeOK, Side, DbInv

LEMMA InitIsGood ==
    ASSUME Init
    PROVE  DbInv(db) /\ Side
<1>1. NoRow \in Rows /\ NoRow.status = "none" /\ NoRow.active = FALSE /\ NoRow.refund = FALSE
  BY DEF NoRow, Rows, PaymentStatus
<1> DEFINE row0 == NoRow
<1>2. /\ db.pay = [p \in Payments |-> row0] /\ db.approvals = <<>>
      /\ db.order = [status |-> "awaiting_payment", paid |-> FALSE, surcharge |-> 0,
                     clock |-> "ahead", extended |-> FALSE]
      /\ db = [order |-> db.order, pay |-> db.pay, approvals |-> db.approvals]
  BY DEF Init
<1> HIDE DEF row0
<1>3. row0 \in Rows /\ row0.status = "none" /\ row0.active = FALSE /\ row0.refund = FALSE
  BY <1>1 DEF row0
<1>4. \A p \in Payments : db.pay[p] = row0
  BY <1>2
<1>5. db.order \in OrderRows /\ db.approvals \in Seq(Payments) /\ db.pay \in [Payments -> Rows]
  BY <1>2, <1>3 DEF OrderRows, OrderStatuses
<1>6. db \in Databases
  BY <1>2, <1>5 DEF Databases
<1>7. /\ db.order.status = "awaiting_payment" /\ db.order.paid = FALSE /\ db.order.surcharge = 0
  BY <1>2
<1>8. Active(db) = {} /\ Ours(db) = {}
  BY <1>3, <1>4 DEF Active, Ours, Moneyed
<1>9. OpenIsOne(db)
  BY <1>3, <1>4, <1>7, <1>8 DEF OpenIsOne
<1>10. OursIsOne(db)
  BY <1>3, <1>4, <1>7, <1>8 DEF OursIsOne, Moneyed
<1>11. FirstPays(db)
  BY <1>2, <1>7 DEF FirstPays
<1>12. Side
  <2>1. charge \in [Payments -> Charge] /\ \A p \in Payments : charge[p] = "none"
    BY DEF Init, Charge
  <2>2. Idle \in Calls /\ Idle.stage = "idle"
    BY DEF Idle, Call, Calls, Charge
  <2>3. call \in [Callers -> Calls] /\ \A c \in Callers : call[c] = Idle
    BY <2>2 DEF Init
  <2>4. \A c \in Callers : CallOK(c)
    BY <2>2, <2>3 DEF CallOK
  <2>5. RefundsWereAsked
    BY <2>1, <2>2, <2>3 DEF RefundsWereAsked
  <2> QED
    BY <2>1, <2>3, <2>4, <2>5 DEF Side, Init
<1> QED
  BY <1>6, <1>9, <1>10, <1>11, <1>12 DEF DbInv

LEMMA StepIsSound ==
    ASSUME DbInv(db), Side, Next
    PROVE  Sound(db, db') /\ Side'
<1>1. ASSUME NEW p \in Payments, NEW surcharge \in Surcharges, Start(p, surcharge)
      PROVE  Sound(db, db') /\ Side'
  BY <1>1, StartStep
<1>2. ASSUME NEW p \in Payments, Retry(p) \/ GiveUp(p)
      PROVE  Sound(db, db') /\ Side'
  BY <1>2, RetryStep, GiveUpStep
<1>3. ASSUME NEW p \in Payments,
             \/ CustomerPays(p) \/ ProviderCloses(p) \/ ChargedBack(p)
             \/ RefundAtProvider(p) \/ RefundRecorded(p)
      PROVE  Sound(db, db') /\ Side'
  BY <1>3, ProviderStep, RefundRecordedStep
<1>4. ASSUME NEW p \in Payments,
             ("webhook" \in Jobs /\ ProcessNotice(p)) \/ ("reconcile" \in Jobs /\ Reconcile(p))
      PROVE  Sound(db, db') /\ Side'
  BY <1>4, NoticeStep, ReconcileStep
<1>5. ASSUME CancelOrder \/ ExpiryDecides \/ ExpiryEnds
      PROVE  Sound(db, db') /\ Side'
  BY <1>5, CancelStep, ExpiryDecidesStep, ExpiryEndsStep
<1>6. ASSUME "expiry" \in Jobs, TimePasses \/ ExpiryStarts
      PROVE  Sound(db, db') /\ Side'
  BY <1>6, TimeStep, ExpiryStartsStep
<1>7. ASSUME NEW c \in Callers, Handle(c) \/ Finish(c) \/ Lost(c) \/ Crash(c)
      PROVE  Sound(db, db') /\ Side'
  BY <1>7, HandleStep, FinishStep, LostStep, CrashStep
<1> QED
  BY <1>1, <1>2, <1>3, <1>4, <1>5, <1>6, <1>7 DEF Next

LEMMA StutterIsSound ==
    ASSUME DbInv(db), Side, UNCHANGED payVars
    PROVE  Sound(db, db') /\ Side'
<1>1. UNCHANGED <<charge, notices, call>> /\ db' = db
  BY DEF payVars
<1>2. Sound(db, db')
  BY <1>1, DbStays
<1> QED
  BY <1>1, <1>2, TransactionStep

\* The invariant is inductive: it holds at first, and every step of a request, of a job or of
\* the provider, and every fault, keeps it.
LEMMA Invariance == Spec => []IInv
<1>1. Init => IInv
  BY InitIsGood, Parts
<1>2. ASSUME IInv, [Next]_payVars
      PROVE  IInv'
  <2>1. DbInv(db) /\ Side
    BY <1>2, Parts
  <2>2. Sound(db, db') /\ Side'
    BY <1>2, <2>1, StepIsSound, StutterIsSound
  <2>3. DbInv(db)' /\ Side'
    BY <2>2 DEF Sound
  <2> QED
    BY <2>3 DEF IInv, TypeOK, Side, DbInv
<1> QED
  BY <1>1, <1>2, PTL DEF Spec

-----------------------------------------------------------------------------
(* What it says of the system *)

\* The payments, the charges, the notices and the calls stay in their ranges, and a call in
\* hand is about a payment.
THEOREM PaymentsTypeCorrect == Spec => []TypeOK
<1>1. IInv => TypeOK
  BY DEF IInv
<1> QED
  BY <1>1, Invariance, PTL

\* The total an unpaid order shows has the surcharge of the payment it waits for, and no
\* other, however payments are started, given up, refused and replaced and whichever answer
\* comes late (ClearSurcharge, `close_active_payment`).
THEOREM SurchargeCorrect == Spec => []SurchargeIsOfOpenPayment
<1>1. IInv => SurchargeIsOfOpenPayment
  <2> SUFFICES ASSUME IInv, Awaiting(db)
               PROVE  db.order.surcharge = IF Active(db) = {} THEN 0
                                           ELSE db.pay[CHOOSE p \in Active(db) : TRUE].amount
    BY DEF SurchargeIsOfOpenPayment
  <2>1. /\ \A p \in Active(db) : db.order.surcharge = db.pay[p].amount
        /\ Active(db) = {} => db.order.surcharge = 0
    BY DEF IInv, DbInv, OpenIsOne
  <2>2. CASE Active(db) # {}
    <3>1. (CHOOSE p \in Active(db) : TRUE) \in Active(db)
      BY <2>2
    <3> QED
      BY <2>1, <2>2, <3>1
  <2> QED
    BY <2>1, <2>2
<1> QED
  BY <1>1, Invariance, PTL

\* The kept money is among what the order was paid with, and that is one payment at most.
LEMMA KeptIsOne ==
    ASSUME IInv
    PROVE  /\ Cardinality(Kept(db)) <= 1
           /\ db.order.status = "confirmed" =>
                 \E p \in Payments : /\ db.pay[p].status \in {"approved", "charged_back"}
                                     /\ ~db.pay[p].refund
<1>1. Kept(db) \subseteq Ours(db)
  BY DEF Kept, Ours, Moneyed
<1>2. \A p, q \in Kept(db) : p = q
  <2>1. db.order.status \in OrderStatuses
    BY DbTypes DEF IInv, DbInv
  <2> QED
    BY <1>1, <2>1 DEF IInv, DbInv, OursIsOne, OrderStatuses
<1>3. Cardinality(Kept(db)) <= 1
  <2>1. CASE Kept(db) = {}
    BY <2>1, FS_EmptySet
  <2>2. CASE Kept(db) # {}
    <3>1. PICK p : p \in Kept(db)
      BY <2>2
    <3>2. Kept(db) = {p}
      BY <1>2, <3>1
    <3> QED
      BY <3>2, FS_Singleton
  <2> QED
    BY <2>1, <2>2
<1>4. ASSUME db.order.status = "confirmed"
      PROVE  \E p \in Payments : /\ db.pay[p].status \in {"approved", "charged_back"}
                                 /\ ~db.pay[p].refund
  <2>1. PICK p \in Payments : Ours(db) = {p}
    BY <1>4 DEF IInv, DbInv, OursIsOne
  <2>2. db.pay[p].status \in Moneyed /\ ~db.pay[p].refund
    BY <2>1 DEF Ours
  <2>3. db.pay[p].status # "refunded"
    BY <2>2 DEF IInv, DbInv, OursIsOne
  <2> QED
    BY <2>2, <2>3 DEF Moneyed
<1> QED
  BY <1>3, <1>4

\* Whether or not a failed order finds its stock again, the store never keeps the money of
\* two payments of the order, and a confirmed order was paid by one whose refund nobody asked.
THEOREM PaidOnce ==
    Spec => [](/\ Cardinality(Kept(db)) <= 1
               /\ db.order.status = "confirmed" =>
                     \E p \in Payments : /\ db.pay[p].status \in {"approved", "charged_back"}
                                         /\ ~db.pay[p].refund)
<1> QED
  BY KeptIsOne, Invariance, PTL

\* While a failed order always finds its stock again (the value the runs give Recoverable),
\* the money of the order is kept once and only for a confirmed order: what a cancelled order
\* gives back (`refundable_payment`) is what it was paid with, and money that comes late or
\* twice is given back (`_approved`).
THEOREM MoneyKept == Recoverable = {TRUE} => (Spec => []MoneyKeptOnce)
<1> SUFFICES ASSUME Recoverable = {TRUE}
             PROVE  Spec => []MoneyKeptOnce
  OBVIOUS
<1>1. ASSUME IInv
      PROVE  MoneyKeptOnce
  <2>1. ASSUME Kept(db) # {}
        PROVE  db.order.status = "confirmed"
    <3>1. Kept(db) \subseteq Ours(db)
      BY DEF Kept, Ours, Moneyed
    <3>2. Ours(db) # {} => db.order.status \in {"confirmed", "cancelled"}
      BY <1>1, DbTypes DEF IInv, DbInv, OursIsOne, OrderStatuses
    <3>3. db.order.status = "cancelled" => Kept(db) = {}
      BY <1>1 DEF IInv, DbInv, FirstPays
    <3> QED
      BY <2>1, <3>1, <3>2, <3>3
  <2> QED
    BY <1>1, <2>1, KeptIsOne DEF MoneyKeptOnce
<1> QED
  BY <1>1, Invariance, PTL

\* Under the same condition the payment side does to the order and to the customer's money
\* what Settlement promises and nothing else: every step pays the order once, gives money
\* back, loses it to the bank, fails or cancels the order, or does not touch money.
THEOREM MoneySettlesHolds == Recoverable = {TRUE} => (Spec => MoneySettles)
<1> SUFFICES ASSUME Recoverable = {TRUE}
             PROVE  Spec => MoneySettles
  OBVIOUS
<1>1. Init => Money!MoneyInit
  <2> SUFFICES ASSUME Init PROVE Money!MoneyInit
    OBVIOUS
  <2>1. \A p \in Payments : db.pay[p].status = "none" /\ db.pay[p].refund = FALSE
    BY DEF Init, NoRow
  <2>2. db.order.status = "awaiting_payment"
    BY DEF Init
  <2> QED
    BY <2>1, <2>2 DEF Money!MoneyInit, Kept
<1>2. ASSUME IInv, [Next]_payVars
      PROVE  [Money!MoneyNext]_(Money!moneyVars)
  <2>1. Settles(db, db')
    BY <1>2, Parts, StepIsSound, StutterIsSound DEF Sound
  <2> QED
    BY <2>1 DEF Settles, Returned, Money!MoneyNext, Money!moneyVars, Money!Pays,
       Money!GoesBack, Money!Disputed, Money!Fails, Money!IsCancelled
<1> QED
  BY <1>1, <1>2, Invariance, PTL DEF Spec, MoneySettles, Money!SettlementSpec

-----------------------------------------------------------------------------
(* The charges at a provider: types *)

ChargeStates == {"waiting", "analysis", "lagging", "failed", "cancelled", "expired", "paid",
                 "partly", "refunded", "charged_back"}
AnswerStatuses == {"none", "pending", "requires_action", "approved", "rejected", "cancelled",
                   "expired", "partially_refunded", "refunded", "chargeback", "error"}

Bills == Seq([of : Payments, at : ChargeStates])
PayRows == [status : AnswerStatuses, id : Nat, link : BOOLEAN, by : Nat]
AskRows == [op : {"none", "create", "fetch", "cancel"}, pay : Payments \cup {"none"},
            status : AnswerStatuses, id : Nat, about : Nat, money : BOOLEAN]
RefundRows == [of : Payments \cup {"none"}, asked : 0..2, given : Int]

ChargeTypes ==
    /\ bill \in Bills /\ Len(bill) <= MaxCharges
    /\ pay \in [Payments -> PayRows]
    /\ asks \in [Askers -> AskRows]
    /\ refund \in [1..2 -> RefundRows]
    /\ alike \in BOOLEAN /\ (kind # "infinitepay" => alike)

(* The inductive invariant *)

\* What an answer may say of the payment it is about.
AnswerOK(a, p) ==
    /\ a.about \in 0..Len(bill)
    /\ a.status = "approved" => a.money /\ a.about # 0
    /\ a.id # 0 => (a.id = C!Page /\ kind \notin {"mercadopago", "infinitepay"}) \/ a.id = a.about
    /\ a.about # 0 /\ a.status # "error" =>
          /\ alike \/ bill[a.about].of = p
          /\ kind # "infinitepay" => bill[a.about].of = p
    /\ kind = "mercadopago" => a.status # "error"
    /\ kind = "infinitepay" => /\ a.status \in {"approved", "error", "requires_action"}
                               /\ a.id = a.about
                               /\ a.about # 0 => a.status = "approved"

AskOK(w) ==
    \/ asks[w] = C!Free
    \/ /\ asks[w].pay \in Payments /\ pay[asks[w].pay].status # "none"
       /\ AnswerOK(asks[w], asks[w].pay)

\* The charge a payment knows, and the one that paid it.
PayOK(p) ==
    /\ kind = "mercadopago" /\ pay[p].id # 0 => pay[p].id <= Len(bill) /\ bill[pay[p].id].of = p
    /\ kind # "infinitepay" /\ pay[p].by # 0 => pay[p].by <= Len(bill) /\ bill[pay[p].by].of = p
    /\ kind = "infinitepay" =>
          /\ pay[p].status \in {"none", "pending", "requires_action", "approved", "cancelled"}
          /\ pay[p].by = pay[p].id
          /\ pay[p].id # 0 <=> pay[p].status = "approved"
          /\ pay[p].id # 0 => pay[p].id <= Len(bill) /\ (alike \/ bill[pay[p].id].of = p)

IdsAreOwn == kind = "infinitepay" =>
    \A p, q \in Payments : p # q /\ pay[p].id # 0 => pay[p].id # pay[q].id

RefundsOK ==
    /\ \A r \in 1..2 : 0 <= refund[r].given /\ refund[r].given <= refund[r].asked
    /\ \A p \in Payments : C!Sum(p, "asked") <= 2

ChargeInv ==
    /\ ChargeTypes
    /\ \A w \in Askers : AskOK(w)
    /\ \A p \in Payments : PayOK(p)
    /\ IdsAreOwn
    /\ RefundsOK

-----------------------------------------------------------------------------
(* Lemmas *)

\* Every set of numbers with a member has a least one.
LEMMA LeastOf ==
    ASSUME NEW S \in SUBSET Nat, S # {}
    PROVE  C!Min(S) \in S
<1> DEFINE R == OpToRel(<, Nat)
<1>1. \A x, y \in Nat : y < x => <<y, x>> \in R
  BY DEF OpToRel
<1>2. IsWellFoundedOn(R, Nat)
  BY NatLessThanWellFounded
<1> HIDE DEF R
<1>3. PICK x \in S : \A y \in S : ~(<<y, x>> \in R)
  BY <1>2, WFMin
<1>4. ASSUME NEW y \in S
      PROVE  x <= y
  <2>1. x \in Nat /\ y \in Nat
    BY <1>3
  <2>2. ~(y < x)
    BY <1>1, <1>3, <2>1, Zenon
  <2> QED
    BY <2>1, <2>2
<1> QED
  BY <1>4 DEF C!Min

\* A sequence is its length and its elements.
LEMMA BillFacts ==
    ASSUME bill \in Bills
    PROVE  /\ Len(bill) \in Nat /\ DOMAIN bill = 1..Len(bill)
           /\ \A i \in 1..Len(bill) : bill[i] \in [of : Payments, at : ChargeStates]
<1> DEFINE R == [of : Payments, at : ChargeStates]
<1>1. bill \in Seq(R)
  BY DEF Bills
<1> HIDE DEF R
<1>2. Len(bill) \in Nat /\ DOMAIN bill = 1..Len(bill) /\ \A i \in 1..Len(bill) : bill[i] \in R
  BY <1>1, LenProperties, ElementOfSeq
<1> QED
  BY <1>2 DEF R

LEMMA OneMore ==
    ASSUME bill \in Bills, NEW r \in [of : Payments, at : ChargeStates], bill' = Append(bill, r)
    PROVE  /\ bill' \in Bills /\ Len(bill') = Len(bill) + 1
           /\ \A i \in 1..Len(bill) : bill'[i] = bill[i]
           /\ bill'[Len(bill) + 1] = r
BY AppendProperties DEF Bills

\* One charge changes its state.
LEMMA OneChanged ==
    ASSUME bill \in Bills, NEW c \in 1..Len(bill), NEW at \in ChargeStates,
           bill' = [bill EXCEPT ![c].at = at]
    PROVE  /\ bill' \in Bills /\ Len(bill') = Len(bill)
           /\ \A i \in 1..Len(bill) : bill'[i].of = bill[i].of
<1>1. bill' = [bill EXCEPT ![c] = [bill[c] EXCEPT !.at = at]]
  OBVIOUS
<1>2. [bill[c] EXCEPT !.at = at] \in [of : Payments, at : ChargeStates]
  BY BillFacts
<1>3. bill' \in Bills /\ Len(bill') = Len(bill)
  BY <1>1, <1>2, ExceptSeq DEF Bills
<1>4. \A i \in 1..Len(bill) : bill'[i] = IF i = c THEN [bill[c] EXCEPT !.at = at] ELSE bill[i]
  BY <1>1, BillFacts
<1> QED
  BY <1>3, <1>4, BillFacts

-----------------------------------------------------------------------------
\* Charges may be made and change their state; whose they are stays.
Grown ==
    /\ bill' \in Bills /\ Len(bill') <= MaxCharges /\ Len(bill) <= Len(bill')
    /\ \A i \in 1..Len(bill) : bill'[i].of = bill[i].of
    /\ UNCHANGED <<kind, alike>>

LEMMA BillsGrow ==
    ASSUME ChargeInv, Grown
    PROVE  /\ UNCHANGED pay => (\A p \in Payments : PayOK(p)') /\ IdsAreOwn'
           /\ \A a \in AskRows, p \in Payments : AnswerOK(a, p) => AnswerOK(a, p)'
<1>1. Len(bill) \in Nat /\ Len(bill') \in Nat
  BY BillFacts DEF ChargeInv, ChargeTypes, Bills, Grown
<1>2. ASSUME UNCHANGED pay
      PROVE  (\A p \in Payments : PayOK(p)') /\ IdsAreOwn'
  <2>1. \A p \in Payments : pay[p].id \in Nat /\ pay[p].by \in Nat
    BY DEF ChargeInv, ChargeTypes, PayRows
  <2> QED
    BY <1>1, <1>2, <2>1 DEF ChargeInv, PayOK, IdsAreOwn, Grown
<1>3. ASSUME NEW a \in AskRows, NEW p \in Payments, AnswerOK(a, p)
      PROVE  AnswerOK(a, p)'
  <2>1. C!Page' = C!Page
    BY DEF C!Page
  <2>2. a.about \in 0..Len(bill')
    BY <1>1, <1>3 DEF AnswerOK, Grown
  <2>3. a.about # 0 => bill'[a.about].of = bill[a.about].of
    BY <1>1, <1>3 DEF AnswerOK, Grown
  <2> QED
    BY <1>3, <2>1, <2>2, <2>3 DEF AnswerOK, Grown
<1> QED
  BY <1>2, <1>3

\* Who asked and is not told, and who is told something true of a payment that was started.
LEMMA OthersAsked ==
    ASSUME ChargeInv, Grown,
           \A p \in Payments : pay[p].status # "none" => pay'[p].status # "none",
           NEW w \in Askers, asks'[w] = asks[w]
    PROVE  AskOK(w)'
<1>1. asks[w] \in AskRows
  BY DEF ChargeInv, ChargeTypes
<1>2. C!Free' = C!Free
  BY DEF C!Free, C!None
<1>3. AskOK(w)
  BY DEF ChargeInv
<1> QED
  BY <1>1, <1>2, <1>3, BillsGrow DEF AskOK

LEMMA AskTold ==
    ASSUME ChargeInv, NEW w \in Askers, NEW op \in {"create", "fetch", "cancel"},
           NEW p \in Payments, NEW a, C!Told(w, op, p, a),
           a.status \in AnswerStatuses, a.id \in Nat, a.about \in Nat, a.money \in BOOLEAN,
           pay'[p].status # "none", AnswerOK(a, p)',
           Grown, \A q \in Payments : pay[q].status # "none" => pay'[q].status # "none"
    PROVE  asks' \in [Askers -> AskRows] /\ \A v \in Askers : AskOK(v)'
<1> DEFINE row == [op |-> op, pay |-> p, status |-> a.status, id |-> a.id, about |-> a.about,
                   money |-> a.money]
<1>1. asks \in [Askers -> AskRows] /\ asks' = [asks EXCEPT ![w] = row]
  BY DEF ChargeInv, ChargeTypes, C!Told
<1>2. row \in AskRows
  BY DEF AskRows
<1>3. AnswerOK(row, p)' /\ row.pay = p
  BY DEF AnswerOK
<1> HIDE DEF row
<1>4. ASSUME NEW v \in Askers
      PROVE  AskOK(v)'
  <2>1. CASE v = w
    BY <1>1, <1>3, <2>1 DEF AskOK
  <2>2. CASE v # w
    BY <1>1, <2>2, OthersAsked
  <2> QED
    BY <2>1, <2>2
<1> QED
  BY <1>1, <1>2, <1>4

\* What Mercado Pago tells approved, it has: neither given back nor charged back.
LEMMA ApprovedByOrder ==
    ASSUME NEW at \in ChargeStates
    PROVE  /\ C!OrderStatus(C!Order(at)) \in AnswerStatuses \ {"error"}
           /\ C!OrderStatus(C!Order(at)) = "approved" => C!Paid(at)
<1>1. CASE at = "waiting"
  BY <1>1 DEF C!OrderStatus, C!Order, C!MapStatus, C!Paid, C!Total,
     AnswerStatuses
<1>2. CASE at = "analysis"
  BY <1>2 DEF C!OrderStatus, C!Order, C!MapStatus, C!Paid, C!Total,
     AnswerStatuses
<1>3. CASE at = "lagging"
  BY <1>3 DEF C!OrderStatus, C!Order, C!MapStatus, C!Paid, C!Total,
     AnswerStatuses
<1>4. CASE at = "failed"
  BY <1>4 DEF C!OrderStatus, C!Order, C!MapStatus, C!Paid, C!Total,
     AnswerStatuses
<1>5. CASE at = "cancelled"
  BY <1>5 DEF C!OrderStatus, C!Order, C!MapStatus, C!Paid, C!Total,
     AnswerStatuses
<1>6. CASE at = "expired"
  BY <1>6 DEF C!OrderStatus, C!Order, C!MapStatus, C!Paid, C!Total,
     AnswerStatuses
<1>7. CASE at = "paid"
  BY <1>7 DEF C!OrderStatus, C!Order, C!MapStatus, C!Paid, C!Total,
     AnswerStatuses
<1>8. CASE at = "partly"
  BY <1>8 DEF C!OrderStatus, C!Order, C!MapStatus, C!Paid, C!Total,
     AnswerStatuses
<1>9. CASE at = "refunded"
  BY <1>9 DEF C!OrderStatus, C!Order, C!MapStatus, C!Paid, C!Total,
     AnswerStatuses
<1>10. CASE at = "charged_back"
  BY <1>10 DEF C!OrderStatus, C!Order, C!MapStatus, C!Paid, C!Total,
     AnswerStatuses
<1> QED
  BY <1>1, <1>2, <1>3, <1>4, <1>5, <1>6, <1>7, <1>8, <1>9, <1>10 DEF ChargeStates

LEMMA AnswerParts ==
    ASSUME NEW status, NEW id, NEW about
    PROVE  /\ C!Answer(status, id, about).status = status
           /\ C!Answer(status, id, about).id = id
           /\ C!Answer(status, id, about).about = about
           /\ C!Answer(status, id, about).money \in BOOLEAN
           /\ C!Answer(status, id, about).money =
                (about # 0 /\ status = "approved" /\ C!Paid(bill[about].at))
BY DEF C!Answer, C!None

LEMMA AnswersOfMercadoPago ==
    ASSUME ChargeInv, kind = "mercadopago", NEW p \in Payments
    PROVE  /\ C!MercadoPagoOrder(p) \in 0..Len(bill)
           /\ C!MercadoPagoOrder(p) # 0 => bill[C!MercadoPagoOrder(p)].of = p
           /\ C!MercadoPagoAnswer(p).status \in AnswerStatuses
           /\ C!MercadoPagoAnswer(p).id \in Nat /\ C!MercadoPagoAnswer(p).money \in BOOLEAN
           /\ AnswerOK(C!MercadoPagoAnswer(p), p)
<1> DEFINE c == C!MercadoPagoOrder(p)
<1>1. Len(bill) \in Nat /\ DOMAIN bill = 1..Len(bill)
      /\ \A i \in 1..Len(bill) : bill[i] \in [of : Payments, at : ChargeStates]
  BY BillFacts DEF ChargeInv, ChargeTypes
<1>2. c \in 0..Len(bill) /\ (c # 0 => bill[c].of = p)
  <2>1. CASE pay[p].id # 0
    BY <2>1, <1>1 DEF ChargeInv, ChargeTypes, PayRows, PayOK, C!MercadoPagoOrder, C!None
  <2>2. CASE pay[p].id = 0 /\ C!OursAt(p) = {}
    BY <2>2, <1>1 DEF C!MercadoPagoOrder, C!None
  <2>3. CASE pay[p].id = 0 /\ C!OursAt(p) # {}
    <3>1. C!OursAt(p) \in SUBSET Nat
      BY <1>1 DEF C!OursAt
    <3>2. c \in C!OursAt(p)
      BY <2>3, <3>1, LeastOf DEF C!MercadoPagoOrder, C!None
    <3> QED
      BY <1>1, <3>2 DEF C!OursAt
  <2> QED
    BY <2>1, <2>2, <2>3
<1> HIDE DEF c
<1>3. alike
  BY DEF ChargeInv, ChargeTypes
<1>4. CASE c = 0
  BY <1>1, <1>3, <1>4 DEF c, C!MercadoPagoAnswer, C!Answer, C!None, AnswerOK, AnswerStatuses
<1>5. CASE c # 0
  <2>1. bill[c].at \in ChargeStates /\ c \in 1..Len(bill)
    BY <1>1, <1>2, <1>5
  <2>2. C!MercadoPagoAnswer(p) = C!Answer(C!OrderStatus(C!Order(bill[c].at)), c, c)
    BY <1>5 DEF c, C!MercadoPagoAnswer, C!None
  <2> DEFINE told == C!OrderStatus(C!Order(bill[c].at))
  <2>3. told \in AnswerStatuses \ {"error"} /\ (told = "approved" => C!Paid(bill[c].at))
    BY <2>1, ApprovedByOrder
  <2> HIDE DEF told
  <2>4. told = "approved" => C!Answer(told, c, c).money
    BY <1>5, <2>3, AnswerParts
  <2>5. /\ C!Answer(told, c, c).status \in AnswerStatuses
        /\ C!Answer(told, c, c).id \in Nat /\ C!Answer(told, c, c).money \in BOOLEAN
        /\ AnswerOK(C!Answer(told, c, c), p)
    BY <1>1, <1>2, <1>3, <1>5, <2>1, <2>3, <2>4, AnswerParts DEF AnswerOK
  <2> QED
    BY <1>2, <2>2, <2>5 DEF c, told
<1> QED
  BY <1>2, <1>4, <1>5 DEF c

LEMMA AnswersHold ==
    ASSUME ChargeInv, NEW p \in Payments, NEW hint \in 0..Len(bill),
           NEW a \in C!Answers(p, hint)
    PROVE  /\ a.status \in AnswerStatuses /\ a.id \in Nat /\ a.about \in Nat
           /\ a.money \in BOOLEAN /\ AnswerOK(a, p)
<1>1. Len(bill) \in Nat /\ DOMAIN bill = 1..Len(bill)
      /\ \A i \in 1..Len(bill) : bill[i] \in [of : Payments, at : ChargeStates]
  BY BillFacts DEF ChargeInv, ChargeTypes
<1>2. kind # "infinitepay" => alike
  BY DEF ChargeInv, ChargeTypes
<1>3. CASE kind = "mercadopago"
  <2>1. a = C!MercadoPagoAnswer(p)
    BY <1>3 DEF C!Answers
  <2> QED
    BY <1>1, <1>3, <2>1, AnswersOfMercadoPago DEF AnswerOK
<1>4. CASE kind = "infinitepay"
  <2>1. a \in C!InfinitePayAnswers(p, hint)
    BY <1>4 DEF C!Answers
  <2>2. CASE a = C!Waiting
    BY <1>1, <1>4, <2>2 DEF C!Waiting, C!Answer, C!None, AnswerOK, AnswerStatuses
  <2>3. CASE a # C!Waiting
    <3>1. hint \in 1..Len(bill) /\ C!Paid(bill[hint].at)
          /\ a = IF C!SameAmount(p, hint) THEN C!Answer("approved", hint, hint)
                 ELSE C!Answer("error", 0, 0)
      BY <1>1, <2>1, <2>3 DEF C!InfinitePayAnswers, C!None
    <3>2. CASE C!SameAmount(p, hint)
      <4>1. a = C!Answer("approved", hint, hint) /\ (alike \/ bill[hint].of = p)
        BY <3>1, <3>2 DEF C!SameAmount
      <4>2. a.status = "approved" /\ a.id = hint /\ a.about = hint /\ a.money /\ a.money \in BOOLEAN
        BY <1>1, <3>1, <4>1, AnswerParts
      <4> QED
        BY <1>1, <1>4, <3>1, <4>1, <4>2 DEF AnswerOK, AnswerStatuses
    <3>3. CASE ~C!SameAmount(p, hint)
      <4>1. a.status = "error" /\ a.id = 0 /\ a.about = 0 /\ a.money \in BOOLEAN
        BY <3>1, <3>3, AnswerParts
      <4> QED
        BY <1>1, <1>4, <4>1 DEF AnswerOK, AnswerStatuses
    <3> QED
      BY <3>2, <3>3
  <2> QED
    BY <2>2, <2>3
<1>5. CASE kind \notin {"mercadopago", "infinitepay"}
  <2>1. a = C!PagBankAnswer(p, hint)
    BY <1>5 DEF C!Answers
  <2>2. CASE hint = 0
    BY <1>1, <1>2, <1>5, <2>1, <2>2 DEF C!PagBankAnswer, C!Waiting, C!Answer, C!None, AnswerOK,
       AnswerStatuses
  <2>3. CASE hint # 0
    <3>1. bill[hint].at \in ChargeStates
      BY <1>1, <2>3
    <3>2. C!PagBankStatus(bill[hint].at) \in {"approved", "rejected", "cancelled", "requires_action"}
          /\ (C!PagBankStatus(bill[hint].at) = "approved" => C!Paid(bill[hint].at))
      BY DEF C!PagBankStatus, C!Paid
    <3>3. CASE bill[hint].of # p
      <4>1. a.status = "error" /\ a.id = 0 /\ a.about = hint /\ a.money \in BOOLEAN
        BY <2>1, <2>3, <3>3, AnswerParts DEF C!PagBankAnswer, C!None
      <4> QED
        BY <1>1, <1>5, <4>1 DEF AnswerOK, AnswerStatuses
    <3>4. CASE bill[hint].of = p
      <4> DEFINE told == C!PagBankStatus(bill[hint].at)
      <4>1. a = C!Answer(told, hint, hint)
        BY <2>1, <2>3, <3>4 DEF C!PagBankAnswer, C!None
      <4> HIDE DEF told
      <4>2. told = "approved" => C!Paid(bill[hint].at)
        BY <3>2 DEF told
      <4>3. /\ a.status = told /\ a.id = hint /\ a.about = hint /\ a.money \in BOOLEAN
            /\ a.status = "approved" => a.money
        BY <2>3, <4>1, <4>2, AnswerParts
      <4>4. told \in AnswerStatuses
        BY <3>2 DEF told, AnswerStatuses
      <4> QED
        BY <1>1, <1>2, <1>5, <2>3, <3>4, <4>3, <4>4 DEF AnswerOK
    <3> QED
      BY <3>3, <3>4
  <2> QED
    BY <2>2, <2>3
<1> QED
  BY <1>3, <1>4, <1>5

-----------------------------------------------------------------------------
(* The steps *)

\* Nothing is made: the charges are as they were.
LEMMA SameBills ==
    ASSUME ChargeInv, UNCHANGED <<kind, alike, bill>>
    PROVE  Grown
BY BillFacts DEF Grown, ChargeInv, ChargeTypes

LEMMA MadeGrows ==
    ASSUME ChargeInv, NEW p \in Payments, NEW at \in ChargeStates, C!Made(p, at),
           UNCHANGED <<kind, alike>>
    PROVE  /\ Grown /\ Len(bill') = Len(bill) + 1
           /\ bill'[Len(bill) + 1] = [of |-> p, at |-> at]
<1>1. bill \in Bills /\ Len(bill) < MaxCharges
  BY DEF ChargeInv, ChargeTypes, C!Made
<1>2. [of |-> p, at |-> at] \in [of : Payments, at : ChargeStates]
  OBVIOUS
<1>3. bill' = Append(bill, [of |-> p, at |-> at])
  BY DEF C!Made
<1>4. /\ bill' \in Bills /\ Len(bill') = Len(bill) + 1
      /\ \A i \in 1..Len(bill) : bill'[i] = bill[i]
      /\ bill'[Len(bill) + 1] = [of |-> p, at |-> at]
  BY <1>1, <1>2, <1>3, OneMore
<1>5. Len(bill) \in Nat
  BY <1>1, BillFacts
<1> QED
  BY <1>1, <1>4, <1>5, ChargesAssumption DEF Grown

LEMMA ChangedGrows ==
    ASSUME ChargeInv, NEW c \in 1..Len(bill), NEW at \in ChargeStates,
           bill' = [bill EXCEPT ![c].at = at], UNCHANGED <<kind, alike>>
    PROVE  Grown
<1>1. bill \in Bills /\ Len(bill) <= MaxCharges /\ Len(bill) \in Nat
  BY BillFacts DEF ChargeInv, ChargeTypes
<1>2. /\ bill' \in Bills /\ Len(bill') = Len(bill)
      /\ \A i \in 1..Len(bill) : bill'[i].of = bill[i].of
  BY <1>1, OneChanged
<1> QED
  BY <1>1, <1>2 DEF Grown

\* A step of the charges alone.
LEMMA OnlyBills ==
    ASSUME ChargeInv, Grown, UNCHANGED <<pay, asks>>,
           refund' \in [1..2 -> RefundRows], RefundsOK'
    PROVE  ChargeInv'
<1>1. ChargeTypes'
  BY DEF ChargeInv, ChargeTypes, Grown
<1>2. \A w \in Askers : AskOK(w)'
  BY OthersAsked DEF ChargeInv
<1>3. (\A p \in Payments : PayOK(p)') /\ IdsAreOwn'
  BY BillsGrow
<1> QED
  BY <1>1, <1>2, <1>3 DEF ChargeInv

\* No refund is asked for.
LEMMA SameRefunds ==
    ASSUME ChargeInv, UNCHANGED refund
    PROVE  refund' \in [1..2 -> RefundRows] /\ RefundsOK'
BY DEF ChargeInv, ChargeTypes, RefundsOK, C!Sum

LEMMA PaysOnPageKeeps ==
    ASSUME ChargeInv, NEW p \in Payments, C!PaysOnPage(p)
    PROVE  ChargeInv'
<1>1. PICK at \in {"analysis", "failed", "paid"} : C!Made(p, at)
  BY DEF C!PaysOnPage
<1>2. at \in ChargeStates
  BY DEF ChargeStates
<1> QED
  BY <1>1, <1>2, MadeGrows, OnlyBills, SameRefunds DEF C!PaysOnPage

LEMMA ChangesKeeps ==
    ASSUME ChargeInv, NEW c \in DOMAIN bill, C!Changes(c)
    PROVE  ChargeInv'
<1>1. c \in 1..Len(bill)
  BY BillFacts DEF ChargeInv, ChargeTypes
<1>2. PICK at \in C!Becomes(bill[c].at) : bill' = [bill EXCEPT ![c].at = at]
  BY DEF C!Changes
<1>3. at \in ChargeStates
  BY <1>2 DEF C!Becomes, ChargeStates
<1> QED
  BY <1>1, <1>2, <1>3, ChangedGrows, OnlyBills, SameRefunds DEF C!Changes

LEMMA GivesUpKeeps ==
    ASSUME ChargeInv, NEW p \in Payments, C!GivesUp(p)
    PROVE  ChargeInv'
<1>1. Grown
  BY SameBills DEF C!GivesUp
<1>2. /\ pay' \in [Payments -> PayRows]
      /\ \A q \in Payments : /\ pay'[q].id = pay[q].id /\ pay'[q].by = pay[q].by
                             /\ pay'[q].status = IF q = p THEN "cancelled" ELSE pay[q].status
      /\ pay[p].status \in {"pending", "requires_action"}
  BY DEF C!GivesUp, ChargeInv, ChargeTypes, PayRows, AnswerStatuses
<1>3. ChargeTypes'
  BY <1>2 DEF ChargeInv, ChargeTypes, C!GivesUp
<1>4. \A w \in Askers : AskOK(w)'
  BY <1>1, <1>2, OthersAsked DEF C!GivesUp
<1>5. \A q \in Payments : PayOK(q)'
  BY <1>2 DEF ChargeInv, PayOK, C!GivesUp
<1>6. IdsAreOwn'
  BY <1>2 DEF ChargeInv, IdsAreOwn, C!GivesUp
<1> QED
  BY <1>3, <1>4, <1>5, <1>6, SameRefunds DEF ChargeInv, C!GivesUp

LEMMA ChecksKeeps ==
    ASSUME ChargeInv, NEW w \in Askers, NEW p \in Payments, NEW hint \in {0} \cup DOMAIN bill,
           C!Checks(w, p, hint)
    PROVE  ChargeInv'
<1>1. hint \in 0..Len(bill)
  BY BillFacts DEF ChargeInv, ChargeTypes
<1>2. PICK a \in C!Answers(p, hint) : C!Told(w, "fetch", p, a)
  BY DEF C!Checks
<1>3. /\ a.status \in AnswerStatuses /\ a.id \in Nat /\ a.about \in Nat
      /\ a.money \in BOOLEAN /\ AnswerOK(a, p)
  BY <1>1, AnswersHold
<1>4. Grown
  BY SameBills DEF C!Checks
<1>5. AnswerOK(a, p)'
  BY <1>3 DEF AnswerOK, C!Checks, C!Page
<1>6. asks' \in [Askers -> AskRows] /\ \A v \in Askers : AskOK(v)'
  BY <1>2, <1>3, <1>4, <1>5, AskTold DEF C!Checks
<1>7. (\A q \in Payments : PayOK(q)') /\ IdsAreOwn'
  BY <1>4, BillsGrow DEF C!Checks
<1>8. ChargeTypes'
  BY <1>6 DEF ChargeInv, ChargeTypes, C!Checks
<1> QED
  BY <1>6, <1>7, <1>8, SameRefunds DEF ChargeInv, C!Checks

LEMMA CancelsKeeps ==
    ASSUME ChargeInv, NEW w \in Askers, NEW p \in Payments, C!Cancels(w, p)
    PROVE  ChargeInv'
<1>1. PICK c : c = C!MercadoPagoOrder(p)
  OBVIOUS
<1>2. kind = "mercadopago" /\ pay[p].status = "cancelled" /\ c # 0
      /\ UNCHANGED <<kind, alike, pay, refund>>
  BY <1>1 DEF C!Cancels, C!None
<1>3. c \in 1..Len(bill) /\ bill[c].of = p
  BY <1>1, <1>2, AnswersOfMercadoPago, BillFacts DEF ChargeInv, ChargeTypes
<1>4. PICK a : /\ C!Told(w, "cancel", p, a)
               /\ \/ /\ a = C!Answer("cancelled", c, c)
                     /\ bill' = [bill EXCEPT ![c].at = "cancelled"]
                  \/ a = C!MercadoPagoAnswer(p) /\ UNCHANGED bill
  BY <1>1 DEF C!Cancels
<1>5. /\ a.status \in AnswerStatuses /\ a.id \in Nat /\ a.about \in Nat /\ a.money \in BOOLEAN
      /\ AnswerOK(a, p) /\ Grown
  <2>1. CASE a = C!MercadoPagoAnswer(p) /\ UNCHANGED bill
    <3>1. Grown
      BY <1>2, <2>1, SameBills
    <3> QED
      BY <1>2, <2>1, <3>1, AnswersOfMercadoPago, BillFacts DEF AnswerOK, ChargeInv, ChargeTypes
  <2>2. CASE a = C!Answer("cancelled", c, c) /\ bill' = [bill EXCEPT ![c].at = "cancelled"]
    <3>1. Grown
      BY <1>2, <1>3, <2>2, ChangedGrows DEF ChargeStates
    <3>2. a.status = "cancelled" /\ a.id = c /\ a.about = c /\ a.money \in BOOLEAN
      BY <2>2, AnswerParts
    <3>3. AnswerOK(a, p)
      BY <1>2, <1>3, <3>2 DEF AnswerOK
    <3> QED
      BY <1>3, <3>1, <3>2, <3>3 DEF AnswerStatuses
  <2> QED
    BY <1>4, <2>1, <2>2
<1>6. AnswerOK(a, p)'
  <2>1. a.about # 0 => a.about \in 1..Len(bill)
    BY <1>5 DEF AnswerOK
  <2>2. a.about \in 0..Len(bill')
    BY <1>5, BillFacts DEF AnswerOK, Grown, ChargeInv, ChargeTypes, Bills
  <2> QED
    BY <1>5, <2>1, <2>2 DEF AnswerOK, Grown, C!Page
<1>7. asks' \in [Askers -> AskRows] /\ \A v \in Askers : AskOK(v)'
  BY <1>2, <1>4, <1>5, <1>6, AskTold
<1>8. (\A q \in Payments : PayOK(q)') /\ IdsAreOwn'
  BY <1>2, <1>5, BillsGrow
<1>9. ChargeTypes'
  BY <1>2, <1>5, <1>7 DEF ChargeInv, ChargeTypes, Grown
<1> QED
  BY <1>2, <1>7, <1>8, <1>9, SameRefunds DEF ChargeInv

LEMMA StartsKeeps ==
    ASSUME ChargeInv, NEW w \in Askers, NEW p \in Payments, C!Starts(w, p)
    PROVE  ChargeInv'
<1>1. pay[p].status = "none" /\ pay' = [pay EXCEPT ![p].status = "pending"]
      /\ UNCHANGED <<kind, alike, refund>>
  BY DEF C!Starts
<1>2. /\ pay' \in [Payments -> PayRows]
      /\ \A q \in Payments : /\ pay'[q].id = pay[q].id /\ pay'[q].by = pay[q].by
                             /\ pay'[q].status = IF q = p THEN "pending" ELSE pay[q].status
  BY <1>1 DEF ChargeInv, ChargeTypes, PayRows, AnswerStatuses
<1>3. /\ Grown /\ asks' \in [Askers -> AskRows] /\ \A v \in Askers : AskOK(v)'
  <2>0. Len(bill) \in Nat
    BY BillFacts DEF ChargeInv, ChargeTypes
  <2>1. CASE kind = "mercadopago"
    <3>1. PICK at \in {"waiting", "analysis", "paid", "failed"} :
             /\ C!Made(p, at)
             /\ \/ C!Told(w, "create", p, [status |-> C!OrderStatus(C!Order(at)), id |-> Len(bill) + 1,
                                           about |-> Len(bill) + 1, money |-> C!Paid(at)])
                \/ UNCHANGED asks
      BY <2>1 DEF C!Starts
    <3>2. at \in ChargeStates
      BY DEF ChargeStates
    <3>3. Grown /\ Len(bill') = Len(bill) + 1 /\ bill'[Len(bill) + 1] = [of |-> p, at |-> at]
      BY <1>1, <3>1, <3>2, MadeGrows
    <3>4. CASE UNCHANGED asks
      BY <1>2, <3>3, <3>4, OthersAsked DEF ChargeInv, ChargeTypes
    <3>5. CASE C!Told(w, "create", p, [status |-> C!OrderStatus(C!Order(at)), id |-> Len(bill) + 1,
                                       about |-> Len(bill) + 1, money |-> C!Paid(at)])
      <4>1. PICK told : told = C!OrderStatus(C!Order(at))
        OBVIOUS
      <4>2. PICK money : money = C!Paid(at)
        OBVIOUS
      <4>3. PICK n \in Nat : n = Len(bill) + 1
        BY <2>0
      <4>4. PICK a : a = [status |-> told, id |-> n, about |-> n, money |-> money]
        OBVIOUS
      <4>5. C!Told(w, "create", p, a)
        BY <3>5, <4>1, <4>2, <4>3, <4>4
      <4>6. told \in AnswerStatuses \ {"error"} /\ (told = "approved" => money)
        BY <3>2, <4>1, <4>2, ApprovedByOrder
      <4>7. AnswerOK(a, p)'
        BY <1>1, <2>0, <2>1, <3>3, <4>3, <4>4, <4>6 DEF AnswerOK
      <4>8. a.status \in AnswerStatuses /\ a.id \in Nat /\ a.about \in Nat /\ a.money \in BOOLEAN
        <5>1. money \in BOOLEAN
          BY <4>2 DEF C!Paid
        <5> QED
          BY <4>4, <4>6, <5>1
      <4>9. pay'[p].status # "none"
            /\ \A q \in Payments : pay[q].status # "none" => pay'[q].status # "none"
        BY <1>2
      <4> QED
        BY <3>3, <4>5, <4>7, <4>8, <4>9, AskTold
    <3> QED
      BY <3>1, <3>3, <3>4, <3>5
  <2>2. CASE kind # "mercadopago"
    <3>1. PICK n : n = IF kind = "pagbank" THEN C!Page ELSE 0
      OBVIOUS
    <3>2. PICK a : a = [C!Waiting EXCEPT !.id = n]
      OBVIOUS
    <3>3. C!Told(w, "create", p, a) /\ UNCHANGED bill
      BY <2>2, <3>1, <3>2 DEF C!Starts, C!None
    <3>4. a.status = "requires_action" /\ a.id = n /\ a.about = 0 /\ a.money = FALSE
      BY <3>2 DEF C!Waiting, C!Answer, C!None
    <3>5. Grown
      BY <1>1, <3>3, SameBills
    <3>6. AnswerOK(a, p)'
      BY <1>1, <2>0, <2>2, <3>1, <3>3, <3>4 DEF AnswerOK, C!Page
    <3>7. a.status \in AnswerStatuses /\ a.id \in Nat /\ a.about \in Nat /\ a.money \in BOOLEAN
      <4>1. n \in Nat
        BY <3>1, ChargesAssumption DEF C!Page
      <4>2. a.money \in BOOLEAN
        BY <3>4
      <4> QED
        BY <3>4, <4>1, <4>2 DEF AnswerStatuses
    <3>8. pay'[p].status # "none"
          /\ \A q \in Payments : pay[q].status # "none" => pay'[q].status # "none"
      BY <1>2
    <3> QED
      BY <3>3, <3>5, <3>6, <3>7, <3>8, AskTold
  <2> QED
    BY <2>1, <2>2
<1>4. ChargeTypes'
  BY <1>1, <1>2, <1>3 DEF ChargeInv, ChargeTypes, Grown
<1>5. \A q \in Payments : PayOK(q)'
  <2> SUFFICES ASSUME NEW q \in Payments PROVE PayOK(q)'
    OBVIOUS
  <2>1. PayOK(q) /\ pay[q].id \in Nat /\ pay[q].by \in Nat /\ Len(bill) \in Nat /\ Len(bill') \in Nat
    BY <1>3, BillFacts DEF ChargeInv, ChargeTypes, PayRows, Grown, Bills
  <2>2. pay'[q].status = "approved" <=> pay[q].status = "approved"
    BY <1>1, <1>2
  <2> QED
    BY <1>1, <1>2, <1>3, <2>1, <2>2 DEF PayOK, Grown
<1>6. IdsAreOwn'
  BY <1>1, <1>2 DEF ChargeInv, IdsAreOwn
<1> QED
  BY <1>1, <1>3, <1>4, <1>5, <1>6, SameRefunds DEF ChargeInv

\* What an answer makes of the payment it is about.
LEMMA WhatIsMadeOfAnAnswer ==
    ASSUME ChargeInv, NEW a \in AskRows, NEW p \in Payments, AnswerOK(a, p),
           pay[p].status # "none", NEW row \in PayRows,
           row.status = C!Applied(p, a).status, row.id = C!Applied(p, a).id,
           row.by = C!Applied(p, a).by
    PROVE  /\ row.status # "none"
           /\ kind = "mercadopago" /\ row.id # 0 => row.id <= Len(bill) /\ bill[row.id].of = p
           /\ kind # "infinitepay" /\ row.by # 0 => row.by <= Len(bill) /\ bill[row.by].of = p
           /\ kind = "infinitepay" =>
                 /\ row.status \in {"none", "pending", "requires_action", "approved", "cancelled"}
                 /\ row.by = row.id
                 /\ row.id # 0 <=> row.status = "approved"
                 /\ row.id # 0 => row.id <= Len(bill) /\ (alike \/ bill[row.id].of = p)
                 /\ row.id # 0 => \A q \in Payments \ {p} : pay[q].id # row.id
<1> DEFINE learns == a.id # 0 /\ pay[p].id = 0
           known == IF learns THEN [pay[p] EXCEPT !.id = a.id] ELSE pay[p]
           refused == a.status = "error" \/ (learns /\ a.id # C!Page /\ C!Taken(p, a.id))
<1>1. /\ pay[p] \in PayRows /\ PayOK(p) /\ Len(bill) \in Nat /\ a.id \in Nat /\ a.about \in Nat
      /\ (kind # "infinitepay" => alike) /\ Len(bill) <= MaxCharges
  BY BillFacts DEF ChargeInv, ChargeTypes, AskRows
<1>2. /\ known \in PayRows /\ known.status = pay[p].status /\ known.by = pay[p].by
      /\ known.id = IF learns THEN a.id ELSE pay[p].id
  BY <1>1 DEF PayRows
<1>3. CASE refused
  <2>1. C!Applied(p, a) = pay[p]
    BY <1>3 DEF C!Applied, C!None
  <2>2. kind = "infinitepay" /\ row.id # 0 => \A q \in Payments \ {p} : pay[q].id # row.id
    BY <2>1 DEF ChargeInv, IdsAreOwn
  <2> QED
    BY <1>1, <2>1, <2>2 DEF PayOK
<1>4. CASE ~refused /\ a.status \notin C!NextStatus(known.status)
  <2>1. C!Applied(p, a) = known
    BY <1>4 DEF C!Applied, C!None
  <2>2. kind = "infinitepay" => ~learns
    <3>1. \A s \in {"pending", "requires_action", "cancelled"} : "approved" \in C!NextStatus(s)
      BY DEF C!NextStatus
    <3>2. kind = "infinitepay" /\ learns =>
             pay[p].status \in {"pending", "requires_action", "cancelled"} /\ a.status = "approved"
      BY <1>1 DEF PayOK, AnswerOK
    <3> QED
      BY <1>2, <1>4, <3>1, <3>2
  <2>3. kind = "infinitepay" /\ row.id # 0 => \A q \in Payments \ {p} : pay[q].id # row.id
    BY <1>2, <2>1, <2>2 DEF ChargeInv, IdsAreOwn
  <2>4. kind = "mercadopago" /\ learns => a.id = a.about /\ a.id \in 1..Len(bill) /\ bill[a.id].of = p
    BY <1>1 DEF AnswerOK
  <2> HIDE DEF learns, known, refused
  <2> QED
    BY <1>1, <1>2, <2>1, <2>2, <2>3, <2>4 DEF PayOK
<1>5. CASE ~refused /\ a.status \in C!NextStatus(known.status)
  <2>1. C!Applied(p, a) = [known EXCEPT !.status = a.status,
                                        !.by = IF a.status = "approved" THEN a.about ELSE known.by]
    BY <1>5 DEF C!Applied, C!None
  <2>2. /\ row.status = a.status /\ row.id = known.id
        /\ row.by = IF a.status = "approved" THEN a.about ELSE known.by
    <3> HIDE DEF known
    <3> QED
      BY <1>2, <2>1 DEF PayRows
  <2>3. a.status # "none" /\ a.status # "error"
    BY <1>5 DEF C!NextStatus
  <2>4. a.about # 0 => a.about \in 1..Len(bill) /\ (kind # "infinitepay" => bill[a.about].of = p)
                       /\ (alike \/ bill[a.about].of = p)
    BY <1>1, <2>3 DEF AnswerOK
  <2>5. a.id # 0 => (a.id = C!Page /\ kind \notin {"mercadopago", "infinitepay"}) \/ a.id = a.about
    BY DEF AnswerOK
  <2>6. a.status = "approved" => a.about # 0
    BY DEF AnswerOK
  <2>7. ASSUME kind = "infinitepay"
        PROVE  /\ row.status \in {"none", "pending", "requires_action", "approved", "cancelled"}
               /\ row.by = row.id
               /\ row.id # 0 <=> row.status = "approved"
               /\ row.id # 0 => row.id <= Len(bill) /\ (alike \/ bill[row.id].of = p)
               /\ row.id # 0 => \A q \in Payments \ {p} : pay[q].id # row.id
    <3>1. a.status \in {"approved", "requires_action"} /\ a.id = a.about
          /\ (a.about # 0 => a.status = "approved")
      BY <2>3, <2>7 DEF AnswerOK
    <3>2. pay[p].id = 0
      <4>1. pay[p].status # "approved"
        BY <1>2, <1>5, <3>1 DEF C!NextStatus
      <4> QED
        BY <1>1, <2>7, <4>1 DEF PayOK
    <3>3. a.id # 0 => a.id # C!Page
      BY <1>1, <2>4, <3>1, ChargesAssumption DEF C!Page
    <3>4. a.id # 0 => learns /\ ~C!Taken(p, a.id)
      BY <1>5, <3>2, <3>3
    <3>5. a.id # 0 => \A q \in Payments \ {p} : pay[q].id # a.id
      BY <3>4 DEF C!Taken
    <3>6. pay[p].by = 0
      BY <1>1, <2>7, <3>2 DEF PayOK
    <3> HIDE DEF learns, known, refused
    <3> QED
      BY <1>1, <1>2, <2>2, <2>4, <2>6, <3>1, <3>2, <3>4, <3>5, <3>6
  <2> HIDE DEF learns, known, refused
  <2>8. kind = "mercadopago" /\ row.id # 0 => row.id <= Len(bill) /\ bill[row.id].of = p
    <3>1. learns => a.id # 0
      BY DEF learns
    <3> QED
      BY <1>1, <1>2, <2>2, <2>4, <2>5, <3>1 DEF PayOK
  <2>9. kind # "infinitepay" /\ row.by # 0 => row.by <= Len(bill) /\ bill[row.by].of = p
    BY <1>1, <1>2, <2>2, <2>4, <2>6 DEF PayOK
  <2> QED
    BY <2>2, <2>3, <2>7, <2>8, <2>9
<1> QED
  BY <1>3, <1>4, <1>5

LEMMA AppliesKeeps ==
    ASSUME ChargeInv, NEW w \in Askers, C!Applies(w)
    PROVE  ChargeInv'
<1>1. PICK a \in AskRows : a = asks[w]
  BY DEF ChargeInv, ChargeTypes
<1>2. PICK p : p = a.pay
  OBVIOUS
<1>3. a # C!Free /\ asks' = [asks EXCEPT ![w] = C!Free]
      /\ UNCHANGED <<kind, alike, bill, refund>>
  BY <1>1 DEF C!Applies
<1>4. p \in Payments /\ pay[p].status # "none" /\ AnswerOK(a, p)
  BY <1>1, <1>2, <1>3 DEF ChargeInv, AskOK
<1>5. PICK known : known = C!Applied(p, a)
  OBVIOUS
<1>6. known \in PayRows
  <2>1. pay[p] \in PayRows /\ a.id \in Nat /\ a.about \in Nat /\ a.status \in AnswerStatuses
    BY <1>4 DEF ChargeInv, ChargeTypes, AskRows
  <2> QED
    BY <1>5, <2>1 DEF C!Applied, PayRows
<1>7. PICK link : link = (known.link \/ (a.op = "create" /\ kind # "mercadopago"))
  OBVIOUS
<1>8. PICK row : row = [known EXCEPT !.link = link]
  OBVIOUS
<1>9. pay' = [pay EXCEPT ![p] = row]
  BY <1>1, <1>2, <1>5, <1>7, <1>8 DEF C!Applies
<1>10. /\ row \in PayRows /\ row.status = known.status /\ row.id = known.id /\ row.by = known.by
  <2>1. link \in BOOLEAN
    BY <1>7
  <2> QED
    BY <1>6, <1>8, <2>1 DEF PayRows
<1>11. /\ row.status # "none"
       /\ kind = "mercadopago" /\ row.id # 0 => row.id <= Len(bill) /\ bill[row.id].of = p
       /\ kind # "infinitepay" /\ row.by # 0 => row.by <= Len(bill) /\ bill[row.by].of = p
       /\ kind = "infinitepay" =>
             /\ row.status \in {"none", "pending", "requires_action", "approved", "cancelled"}
             /\ row.by = row.id
             /\ row.id # 0 <=> row.status = "approved"
             /\ row.id # 0 => row.id <= Len(bill) /\ (alike \/ bill[row.id].of = p)
             /\ row.id # 0 => \A q \in Payments \ {p} : pay[q].id # row.id
  BY <1>4, <1>5, <1>10, WhatIsMadeOfAnAnswer
<1>12. /\ pay' \in [Payments -> PayRows]
       /\ \A q \in Payments : pay'[q] = IF q = p THEN row ELSE pay[q]
  BY <1>4, <1>9, <1>10 DEF ChargeInv, ChargeTypes
<1>13. ChargeTypes'
  <2>1. C!Free \in AskRows
    BY DEF C!Free, C!None, AskRows, AnswerStatuses
  <2> QED
    BY <1>3, <1>12, <2>1 DEF ChargeInv, ChargeTypes
<1>14. ASSUME NEW v \in Askers
       PROVE  AskOK(v)'
  <2>1. CASE v = w
    BY <1>3, <2>1 DEF ChargeInv, ChargeTypes, AskOK, C!Free, C!None
  <2>2. CASE v # w
    <3>1. asks'[v] = asks[v]
      BY <1>3, <2>2 DEF ChargeInv, ChargeTypes
    <3>2. \A q \in Payments : pay[q].status # "none" => pay'[q].status # "none"
      BY <1>11, <1>12
    <3> QED
      BY <1>3, <3>1, <3>2, SameBills, OthersAsked
  <2> QED
    BY <2>1, <2>2
<1>15. ASSUME NEW q \in Payments
       PROVE  PayOK(q)'
  BY <1>3, <1>11, <1>12 DEF ChargeInv, PayOK
<1>16. IdsAreOwn'
  BY <1>3, <1>11, <1>12 DEF ChargeInv, IdsAreOwn
<1> QED
  BY <1>3, <1>13, <1>14, <1>15, <1>16, SameRefunds DEF ChargeInv

LEMMA RefundsKeeps ==
    ASSUME ChargeInv, NEW p \in Payments, NEW r \in 1..2, NEW n \in 1..2, C!Refunds(p, r, n)
    PROVE  ChargeInv'
<1>1. UNCHANGED <<kind, alike, pay, asks>>
  BY DEF C!Refunds
<1>2. PICK c : c = pay[p].id
  OBVIOUS
<1>3. /\ refund \in [1..2 -> RefundRows]
      /\ \A s \in 1..2 : 0 <= refund[s].given /\ refund[s].given <= refund[s].asked
      /\ \A q \in Payments : C!Sum(q, "asked") <= 2
  BY DEF ChargeInv, ChargeTypes, RefundsOK
<1>4. \/ refund[r].of = p /\ refund[r].asked = n
      \/ refund[r].asked = 0 /\ C!Sum(p, "asked") + n <= 2
  BY DEF C!Refunds, C!Total
<1>5. \A q \in Payments : \A part \in {"asked", "given"} :
         C!Sum(q, part) = (IF refund[1].of = q THEN refund[1][part] ELSE 0)
                          + (IF refund[2].of = q THEN refund[2][part] ELSE 0)
  BY DEF C!Sum
<1>6. \A g \in Int : 0 <= g /\ g <= n =>
         [refund EXCEPT ![r] = [of |-> p, asked |-> n, given |-> g]] \in [1..2 -> RefundRows]
  BY <1>3 DEF RefundRows
<1>7. /\ refund[1].asked \in 0..2 /\ refund[2].asked \in 0..2
      /\ refund[1].given \in Int /\ refund[2].given \in Int
  BY <1>3 DEF RefundRows
<1>8. C!Sum(p, "given") \in 0..2
  BY <1>3, <1>5, <1>7
<1>9. Grown /\ \E g \in Int : /\ 0 <= g /\ g <= n
                              /\ refund' = [refund EXCEPT ![r] = [of |-> p, asked |-> n, given |-> g]]
  <2>1. CASE /\ refund' = [refund EXCEPT ![r] = [of |-> p, asked |-> n, given |-> refund[r].given]]
             /\ UNCHANGED bill
    <3>1. PICK g \in Int : g = refund[r].given
      BY <1>7
    <3>2. 0 <= g /\ g <= n
      BY <1>3, <1>4, <1>7, <3>1
    <3>3. refund' = [refund EXCEPT ![r] = [of |-> p, asked |-> n, given |-> g]]
      BY <1>3, <2>1, <3>1
    <3> QED
      BY <1>1, <2>1, <3>2, <3>3, SameBills
  <2>2. CASE /\ refund' = [refund EXCEPT ![r] = [of |-> p, asked |-> n, given |-> C!GivesBack(p, n)]]
             /\ bill' = [bill EXCEPT ![c].at = IF C!Sum(p, "given") + C!GivesBack(p, n) = C!Total
                                               THEN "refunded" ELSE "partly"]
    <3>1. PICK g \in Int : g = C!GivesBack(p, n)
      BY <1>8 DEF C!GivesBack, C!Total
    <3>2. 0 <= g /\ g <= n
      BY <1>8, <3>1 DEF C!GivesBack, C!Total
    <3>3. PICK at \in ChargeStates : bill' = [bill EXCEPT ![c].at = at]
      BY <2>2 DEF ChargeStates
    <3>4. CASE c \in 1..Len(bill)
      BY <1>1, <2>2, <3>1, <3>2, <3>3, <3>4, ChangedGrows
    <3>5. CASE c \notin 1..Len(bill)
      <4>1. bill \in Seq([of : Payments, at : ChargeStates]) /\ DOMAIN bill = 1..Len(bill)
        BY BillFacts DEF ChargeInv, ChargeTypes, Bills
      <4>2. bill = [i \in 1..Len(bill) |-> bill[i]]
        BY <4>1
      <4>3. bill' = bill
        BY <3>3, <3>5, <4>1, <4>2
      <4> QED
        BY <1>1, <2>2, <3>1, <3>2, <4>3, SameBills
    <3> QED
      BY <3>4, <3>5
  <2> QED
    BY <1>2, <2>1, <2>2 DEF C!Refunds
<1>10. PICK g \in Int : /\ 0 <= g /\ g <= n
                        /\ refund' = [refund EXCEPT ![r] = [of |-> p, asked |-> n, given |-> g]]
  BY <1>9
<1>11. refund' \in [1..2 -> RefundRows]
  BY <1>6, <1>10
<1>12. \A s \in 1..2 : refund'[s] = IF s = r THEN [of |-> p, asked |-> n, given |-> g] ELSE refund[s]
  BY <1>3, <1>10
<1>13. RefundsOK'
  <2>1. \A s \in 1..2 : 0 <= refund'[s].given /\ refund'[s].given <= refund'[s].asked
    BY <1>3, <1>10, <1>12
  <2>2. ASSUME NEW q \in Payments
        PROVE  C!Sum(q, "asked")' <= 2
    <3>1. C!Sum(q, "asked")' = (IF refund'[1].of = q THEN refund'[1].asked ELSE 0)
                               + (IF refund'[2].of = q THEN refund'[2].asked ELSE 0)
      BY DEF C!Sum
    <3>2. /\ C!Sum(q, "asked") = (IF refund[1].of = q THEN refund[1].asked ELSE 0)
                                 + (IF refund[2].of = q THEN refund[2].asked ELSE 0)
          /\ C!Sum(q, "asked") <= 2
      BY <1>3 DEF C!Sum
    <3>3. CASE r = 1
      BY <1>4, <1>7, <1>12, <3>1, <3>2, <3>3 DEF C!Sum
    <3>4. CASE r = 2
      BY <1>4, <1>7, <1>12, <3>1, <3>2, <3>4 DEF C!Sum
    <3> QED
      BY <3>3, <3>4
  <2> QED
    BY <2>1, <2>2 DEF RefundsOK
<1> QED
  BY <1>1, <1>9, <1>11, <1>13, OnlyBills

-----------------------------------------------------------------------------
\* Every step of the composed system keeps what is true of the charges.
LEMMA ChargesStart ==
    ASSUME C!ChargeInit
    PROVE  ChargeInv
<1>1. ChargeTypes
  <2>1. bill \in Bills /\ Len(bill) <= MaxCharges
    BY ChargesAssumption DEF C!ChargeInit, Bills
  <2> QED
    BY <2>1 DEF C!ChargeInit, ChargeTypes, PayRows, AskRows, RefundRows, AnswerStatuses, C!Free,
       C!None, C!Requests
<1> QED
  BY <1>1 DEF C!ChargeInit, ChargeInv, AskOK, PayOK, IdsAreOwn, RefundsOK, C!None, C!Sum, C!Requests

LEMMA ChargesStep ==
    ASSUME ChargeInv, C!ChargeNext
    PROVE  ChargeInv'
BY PaysOnPageKeeps, GivesUpKeeps, RefundsKeeps, ChangesKeeps, AppliesKeeps, StartsKeeps,
   CancelsKeeps, ChecksKeeps DEF C!ChargeNext, C!Requests, C!Total, C!None

LEMMA ChargesStutter ==
    ASSUME ChargeInv, UNCHANGED chargesOnly
    PROVE  ChargeInv'
<1>1. ChargeTypes'
  BY DEF ChargeInv, ChargeTypes, chargesOnly
<1>2. \A w \in Askers : AskOK(w)'
  BY SameBills, OthersAsked DEF ChargeInv, chargesOnly
<1>3. (\A p \in Payments : PayOK(p)') /\ IdsAreOwn'
  BY SameBills, BillsGrow DEF chargesOnly
<1> QED
  BY <1>1, <1>2, <1>3, SameRefunds DEF ChargeInv, chargesOnly

LEMMA ChargesInvariance == PaymentsSpec => []ChargeInv
<1>1. PaymentsInit => ChargeInv
  BY ChargesStart DEF PaymentsInit
<1>2. ChargeInv /\ [PaymentsNext]_paymentsVars => ChargeInv'
  BY ChargesStep, ChargesStutter DEF PaymentsNext, paymentsVars
<1> QED
  BY <1>1, <1>2, PTL DEF PaymentsSpec

THEOREM ChargesAreRead == PaymentsSpec => []ChargesHold
<1>1. ASSUME ChargeInv
      PROVE  C!ApprovedIsMoney
  BY <1>1 DEF ChargeInv, AskOK, AnswerOK, C!ApprovedIsMoney, C!Free
<1>2. ASSUME ChargeInv
      PROVE  C!ChargePaysOnce
  <2> SUFFICES ASSUME NEW p \in Payments, pay[p].by # 0
               PROVE  /\ alike \/ bill[pay[p].by].of = p
                      /\ \A q \in Payments \ {p} : pay[q].by # pay[p].by
    BY DEF C!ChargePaysOnce, C!None
  <2> QED
    BY <1>2 DEF ChargeInv, ChargeTypes, PayOK, IdsAreOwn
<1>3. ASSUME ChargeInv
      PROVE  C!RefundedAsAsked
  BY <1>3 DEF ChargeInv, RefundsOK, C!RefundedAsAsked, C!Requests
<1>4. ChargeInv => ChargesHold
  BY <1>1, <1>2, <1>3 DEF ChargesHold, C!ChargesHold
<1> QED
  BY <1>4, ChargesInvariance, PTL
=============================================================================
