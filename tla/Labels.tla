------------------------------ MODULE Labels ------------------------------
(***************************************************************************)
(* Buying one label at a carrier's platform (shipping/providers), step by  *)
(* step, each a call whose answer may not come: Frenet quotes again,       *)
(* creates the shipment, pays it from the store's balance, makes sure of   *)
(* the payment and reads the label's link; Melhor Envio puts it in a cart, *)
(* pays, has the label made and reads its link.  After an error the clerk  *)
(* may ask again.  The order, the clerks and the store's row are Shipment. *)
(*                                                                         *)
(* A call whose answer is lost was carried out or was not: it is not       *)
(* carried out later.                                                      *)
(***************************************************************************)
EXTENDS Naturals, Sequences

CONSTANTS Carriers,      \* of "frenet", "melhorenvio"
          MaxShipments,  \* made at the platform (model bound)
          MaxFaults      \* answers lost (model bound)

VARIABLES carrier,
          shipments,  \* sequence of "created", "paid", "deleted", "cancelled": at the platform
          balance,    \* enough for one more label
          desk,       \* step of the request, its shipment's id, what it ended with
          faults

labelVars == <<carrier, shipments, balance, desk, faults>>
Fault == faults < MaxFaults /\ faults' = faults + 1
Fine == UNCHANGED faults

NoId == 0
Goes(step) == desk' = [desk EXCEPT !.step = step]
Ends(with) == desk' = [desk EXCEPT !.step = "ended", !.ended = with]
Mine(state) == shipments' = [shipments EXCEPT ![desk.id] = state]

-----------------------------------------------------------------------------
\* The clerk asks, and again after an error that does not tell otherwise.
MayAskAgain == {"refused", "no balance"}
Asks ==
    /\ desk.step = "ended" /\ desk.ended \in MayAskAgain \cup {"nothing"}
    /\ desk' = [step |-> "quote", id |-> NoId, ended |-> "nothing"]
    /\ UNCHANGED <<carrier, shipments, balance, faults>>

TopUp == /\ ~balance /\ balance' = TRUE
         /\ UNCHANGED <<carrier, shipments, desk, faults>>
SpentElsewhere == /\ balance /\ balance' = FALSE
                  /\ UNCHANGED <<carrier, shipments, desk, faults>>

\* `_chosen_quote` (Frenet): the service may not be quoted any more.
Quotes ==
    /\ desk.step = "quote"
    /\ \/ Goes("create")
       \/ carrier = "frenet" /\ Ends("refused")
    /\ UNCHANGED <<carrier, shipments, balance, faults>>

\* `_create`, or the cart.  Without its id a shipment stays at the platform, unpaid.
Creates ==
    /\ desk.step = "create" /\ Len(shipments) < MaxShipments
    /\ \/ /\ shipments' = Append(shipments, "created") /\ Fine
          /\ desk' = [desk EXCEPT !.step = "pay", !.id = Len(shipments) + 1]
       \/ shipments' \in {shipments, Append(shipments, "created")} /\ Fault /\ Ends("refused")
    /\ UNCHANGED <<carrier, balance>>

\* The payment.  Melhor Envio's answer is taken as it comes; Frenet's is not trusted: short of a
\* plain "no balance" the shipment is read.
Pays ==
    /\ desk.step = "pay"
    /\ \/ /\ balance /\ Fine
          /\ Mine("paid") /\ balance' \in BOOLEAN
          /\ Goes(IF carrier = "frenet" THEN "confirm" ELSE "label")
       \/ /\ ~balance /\ Fine
          /\ (IF carrier = "frenet" THEN Goes("discard no balance") ELSE Ends("no balance"))
          /\ UNCHANGED <<shipments, balance>>
       \/ /\ Fault
          /\ \/ balance /\ Mine("paid") /\ balance' \in BOOLEAN
             \/ UNCHANGED <<shipments, balance>>
          /\ IF carrier = "frenet" THEN Goes("confirm") ELSE Ends("refused")
    /\ UNCHANGED carrier

\* `_status`: read up to three times; unread, the clerk is sent to the platform's own panel.
Unconfirmed_Unpaid == Goes("discard refused")     \* mutant: not confirmed is not paid
Unconfirmed == Ends("check the panel")
Confirms ==
    /\ desk.step = "confirm"
    /\ \/ /\ Fine
          /\ Goes(IF shipments[desk.id] = "paid" THEN "label" ELSE "discard refused")
       \/ Fault /\ Unconfirmed
    /\ UNCHANGED <<carrier, shipments, balance>>

\* `_discard`: what is paid the platform does not delete; failing changes nothing of the answer.
Discards ==
    /\ desk.step \in {"discard refused", "discard no balance"}
    /\ \/ Fine /\ Mine(IF shipments[desk.id] = "created" THEN "deleted" ELSE shipments[desk.id])
       \/ Fault /\ UNCHANGED shipments
    /\ Ends(IF desk.step = "discard refused" THEN "refused" ELSE "no balance")
    /\ UNCHANGED <<carrier, balance>>

\* The link: Frenet's `_label` never fails, Melhor Envio's two calls do.
Links ==
    /\ desk.step = "label"
    /\ \/ Fine /\ Ends("label")
       \/ Fault /\ Ends(IF carrier = "frenet" THEN "label" ELSE "refused")
    /\ UNCHANGED <<carrier, shipments, balance>>

\* The clerk cancels a label of his (Frenet only).
CancelsLabel ==
    /\ desk.step = "ended" /\ desk.ended = "label" /\ carrier = "frenet"
    /\ \/ Fine /\ Mine("cancelled") /\ desk' = [desk EXCEPT !.ended = "nothing"]
       \/ Fault /\ (Mine("cancelled") \/ UNCHANGED shipments) /\ UNCHANGED desk
    /\ UNCHANGED <<carrier, balance>>

-----------------------------------------------------------------------------
LabelsInit ==
    /\ carrier \in Carriers /\ shipments = <<>> /\ balance = TRUE /\ faults = 0
    /\ desk = [step |-> "ended", id |-> NoId, ended |-> "nothing"]

LabelsNext ==
    \/ Asks \/ TopUp \/ SpentElsewhere \/ Quotes \/ Creates \/ Pays \/ Confirms \/ Discards
    \/ Links \/ CancelsLabel

LabelsSpec == LabelsInit /\ [][LabelsNext]_labelVars

-----------------------------------------------------------------------------
\* Frenet: an error after which the clerk may ask again leaves nothing paid, and otherwise no
\* label but this one is, so that nobody pays two labels whatever answers were lost (`ship`: "erro
\* depois de pagar faria o operador comprar de novo").
Paid == {n \in DOMAIN shipments : shipments[n] = "paid"}
PaidOnce ==
    (carrier = "frenet" /\ desk.step = "ended") =>
        CASE desk.ended \in MayAskAgain \cup {"nothing"} -> Paid = {}
          [] OTHER -> Paid \subseteq {desk.id}
=============================================================================
