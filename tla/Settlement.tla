------------------------------ MODULE Settlement ------------------------------
(***************************************************************************)
(* What the payment side promises about the money of one order, whatever   *)
(* happens to calls, notices and jobs: money that arrives pays the order   *)
(* or goes back, the store never keeps it twice, and never without a sale. *)
(***************************************************************************)
EXTENDS FiniteSets

CONSTANT Payments

VARIABLES order,     \* the order's status, as the payment side sees it
          kept,      \* payments whose money the store keeps
          returned   \* payments whose money goes back

moneyVars == <<order, kept, returned>>

MoneyInit == order = "awaiting_payment" /\ kept = {} /\ returned = {}

\* Money that pays the order, in time or for a failed order that finds its stock again.
Pays(p) ==
    /\ order \in {"awaiting_payment", "failed"}
    /\ p \notin returned
    /\ order' = "confirmed"
    /\ kept' = {p}
    /\ UNCHANGED returned

\* Money that comes too late, or a second time.
GoesBack(p) ==
    /\ order # "awaiting_payment"
    /\ p \notin kept
    /\ returned' = returned \cup {p}
    /\ UNCHANGED <<order, kept>>

Fails == order = "awaiting_payment" /\ order' = "failed" /\ UNCHANGED <<kept, returned>>

IsCancelled ==
    /\ order \in {"awaiting_payment", "confirmed"}
    /\ order' = "cancelled"
    /\ kept' = {}
    /\ returned' = returned \cup kept

Disputed(p) == kept' = kept \ {p} /\ UNCHANGED <<order, returned>>

MoneyNext ==
    \/ \E p \in Payments : Pays(p) \/ GoesBack(p) \/ Disputed(p)
    \/ Fails
    \/ IsCancelled

SettlementSpec == MoneyInit /\ [][MoneyNext]_moneyVars
=============================================================================
