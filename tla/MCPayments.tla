------------------------------ MODULE MCPayments ------------------------------
(***************************************************************************)
(* Two payments of one order: against what its provider does by itself and *)
(* tells, or against the jobs that ask; and how each provider's answers    *)
(* are read, with two callers.  The three follow the same code apart from  *)
(* what disturbs it, so a behaviour follows one of them, in focus.         *)
(***************************************************************************)
EXTENDS Payments, TLC

CONSTANTS
    Askers,         \* who calls a provider
    Kinds,          \* the providers
    MaxCharges, MaxMishaps

ASSUME ChargesAssumption == MaxCharges \in Nat

VARIABLES focus,
          kind, alike, bill, pay, asks, refund, mishaps

\* The constants of the first are in the .cfg.
J == INSTANCE Payments WITH Jobs <- {"reconcile", "expiry"}, ProviderMoves <- {},
                            Surcharges <- {0}, MaxFaults <- 0
C == INSTANCE Charges WITH Callers <- Askers, MaxFaults <- MaxMishaps,
                           charge <- bill, call <- asks, faults <- mishaps

Symmetry == Permutations(Payments) \cup Permutations(Askers)

chargesOnly == <<kind, alike, bill, pay, asks, refund, mishaps>>
paymentsVars == <<focus, payVars, chargesOnly>>

PaymentsInit ==
    /\ \/ focus \in {"notices", "charges"} /\ Init
       \/ focus = "jobs" /\ J!Init
    /\ focus # "charges" => kind = "pagbank" /\ alike = TRUE
    /\ C!ChargeInit

PaymentsNext ==
    /\ UNCHANGED focus
    /\ \/ focus = "notices" /\ Next /\ UNCHANGED chargesOnly
       \/ focus = "jobs" /\ J!Next /\ UNCHANGED chargesOnly
       \/ focus = "charges" /\ C!ChargeNext /\ UNCHANGED payVars

PaymentsSpec == PaymentsInit /\ [][PaymentsNext]_paymentsVars

-----------------------------------------------------------------------------
\* What a provider answers is read as what it means: approved is money of ours, a charge pays once,
\* a refund gives back what was asked (payments/providers).
ChargesHold == focus = "charges" => C!ChargesHold
=============================================================================
