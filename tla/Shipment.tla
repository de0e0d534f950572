-------------------------------- MODULE Shipment --------------------------------
(***************************************************************************)
(* The carrier's labels of one order (ShipmentService) and their tracking  *)
(* (shipping/jobs).  A dispatch is one long request: it reads the order    *)
(* without locking it, writes the shipment's row, buys and only then marks *)
(* the order.  Until its first commit it holds the row, and the order too  *)
(* when the row is new (the foreign key's shared lock); with a label per   *)
(* volume every label is committed as soon as it is bought.  The session   *)
(* reads a row once and writes the fields it changed: what it does not     *)
(* read again may be old by then.                                          *)
(***************************************************************************)
EXTENDS Integers, FiniteSets

CONSTANTS Clerks,     \* dispatch requests at the same time: clicks, tabs, retries
          Modes,      \* "one" label for all volumes, or one label "each"
          Stamped,    \* BOOLEAN subset: does the carrier's tracking carry dated events
          MaxFaults   \* refusals, lost answers, crashes, slow requests (model bound)

VARIABLES order,     \* its status
          carrier,   \* mode and stamped; of each volume: labels bought, those the store never
                     \* heard of, and where the parcel is
          shipment,  \* the committed row: status, recorded labels, whether written recently
          clerk,     \* a dispatch: the row as its session has it, and had it at the last commit
          tracker,   \* a tracking pass: the row's status it read
          timeline,  \* committed tracking events
          faults

shipmentVars == <<order, carrier, shipment, clerk, tracker, timeline, faults>>

DONE == {"purchased", "posted", "in_transit", "delivered", "returned"}
OPEN_SHIPMENT == {"purchased", "posted", "in_transit"}
Volumes == 1..(IF carrier.mode = "each" THEN 2 ELSE 1)
Labelled(row) == {n \in Volumes : row.label[n]}
NoRow == [status |-> "none", label |-> [n \in 1..2 |-> FALSE], recent |-> TRUE]
Gone == [at |-> "none", mine |-> NoRow, was |-> NoRow, new |-> FALSE, holds |-> FALSE]
Spend == faults < MaxFaults /\ faults' = faults + 1
Leaves(c) == clerk' = [clerk EXCEPT ![c] = Gone]

-----------------------------------------------------------------------------
(* The dispatch *)

\* Read the row, then the order's status: `dispatch` and `_check`.
Opens(c) ==
    /\ clerk[c] = Gone
    /\ shipment.status \notin DONE
    /\ order \in {"accepted", "in_production"}
    /\ clerk' = [clerk EXCEPT ![c] = [Gone EXCEPT !.at = "row", !.mine = shipment, !.was = shipment]]
    /\ UNCHANGED <<order, carrier, shipment, tracker, timeline, faults>>

Held == \E c \in Clerks : clerk[c].holds

\* A stopped dispatch is taken up only if labels were recorded and nobody wrote for ten minutes.
Resumable(row) == row.status # "creating" \/ (~row.recent /\ Labelled(row) # {})

\* `_row` on a row as the session has it: bought already (and then shipped all the same), the
\* same one again, or refused.
Retaken(c, row) ==
    IF row.status \in DONE THEN [clerk[c] EXCEPT !.at = "ship", !.mine = row, !.was = row]
    ELSE IF Resumable(row)
    THEN [clerk[c] EXCEPT !.at = "ship", !.mine = [row EXCEPT !.status = "creating"], !.was = row,
                          !.holds = TRUE]
    ELSE Gone

\* `_row`: a new row, one for an order, or the one that is there.  A row the session has read is
\* not read again; one it has not is seen now, or stops the insert.
TakesRow(c) ==
    LET mine == clerk[c].mine
    IN  /\ clerk[c].at = "row" /\ ~Held
        /\ \E next \in
              IF mine.status # "none" THEN {Retaken(c, mine)}
              ELSE IF shipment.status # "none" THEN {Retaken(c, shipment), Gone}
              ELSE {[clerk[c] EXCEPT !.at = "ship", !.mine.status = "creating",
                                     !.new = TRUE, !.holds = TRUE]} :
              clerk' = [clerk EXCEPT ![c] = next]
        /\ UNCHANGED <<order, carrier, shipment, tracker, timeline, faults>>

\* A commit writes what the session changed; the status it took the row with is one of them.
Commits(c, row) ==
    shipment' = [status |-> IF clerk[c].holds \/ row.status # clerk[c].was.status
                            THEN row.status ELSE shipment.status,
                 label  |-> IF row.label # clerk[c].was.label THEN row.label ELSE shipment.label,
                 recent |-> TRUE]

\* `_fail`, `_fail_kept`: the reason and what was bought stay.
Failing(c) == Commits(c, [clerk[c].mine EXCEPT !.status = "failed"]) /\ Leaves(c)

\* One call to the carrier: the next volume without a recorded label.
Wanted_All(row) == Volumes            \* mutant: bought volumes are bought again
Wanted(row) == IF carrier.mode = "each" THEN Volumes \ Labelled(row) ELSE Volumes
Complete(row) == Labelled(row) = Volumes
Buys(c) ==
    LET mine    == clerk[c].mine
        n       == CHOOSE v \in Wanted(mine) : \A m \in Wanted(mine) : v <= m
        counted == [carrier EXCEPT !.bought[n] = @ + 1]
        after   == [mine EXCEPT !.label[n] = TRUE]
    IN  /\ clerk[c].at = "ship" /\ Wanted(mine) # {}
        /\ \/ /\ carrier' = counted /\ UNCHANGED faults
              /\ IF carrier.mode = "each"
                 THEN /\ Commits(c, after)
                      /\ clerk' = [clerk EXCEPT ![c].mine = after, ![c].was = after,
                                                ![c].new = FALSE, ![c].holds = FALSE,
                                                ![c].at = IF Complete(after) THEN "mark" ELSE @]
                 ELSE /\ UNCHANGED shipment
                      /\ clerk' = [clerk EXCEPT ![c].mine = after, ![c].at = "mark"]
           \/ Spend /\ Failing(c) /\ UNCHANGED carrier           \* refused, no balance
           \/ /\ Spend /\ Failing(c)                            \* bought, and the answer is lost
              /\ carrier' = [counted EXCEPT !.lost[n] = @ + 1]
        /\ UNCHANGED <<order, tracker, timeline>>

\* Every volume has its label: the row and the order are written, over the status that was read.
Finishes(c) ==
    /\ clerk[c].at = "mark"
    /\ clerk[c].holds \/ ~Held
    /\ Commits(c, [clerk[c].mine EXCEPT !.status = "purchased"])
    /\ order' = "shipped"
    /\ Leaves(c)
    /\ UNCHANGED <<carrier, tracker, timeline, faults>>

\* What was bought and not committed is forgotten.
Crashes(c) ==
    /\ clerk[c] # Gone /\ Spend /\ Leaves(c)
    /\ carrier' = IF clerk[c].at = "mark" /\ carrier.mode = "one"
                  THEN [carrier EXCEPT !.lost[1] = @ + 1] ELSE carrier
    /\ UNCHANGED <<order, shipment, tracker, timeline>>

TenMinutes ==
    /\ shipment.status = "creating" /\ shipment.recent
    /\ IF \A c \in Clerks : clerk[c] = Gone THEN UNCHANGED faults ELSE Spend
    /\ shipment' = [shipment EXCEPT !.recent = FALSE]
    /\ UNCHANGED <<order, carrier, clerk, tracker, timeline>>

\* The store or the customer cancels; it waits for who holds the order.
CancelOrder ==
    /\ order \in {"accepted", "in_production", "shipped"}
    /\ ~\E c \in Clerks : clerk[c].holds /\ clerk[c].new
    /\ order' = "cancelled"
    /\ UNCHANGED <<carrier, shipment, clerk, tracker, timeline, faults>>

-----------------------------------------------------------------------------
(* The carrier and the tracking *)

CarrierMoves(n) ==
    /\ n \in Volumes /\ carrier.bought[n] > 0
    /\ \E step \in {<<"bought", "posted">>, <<"posted", "delivered">>} :
          carrier.volume[n] = step[1] /\ carrier' = [carrier EXCEPT !.volume[n] = step[2]]
    /\ UNCHANGED <<order, shipment, clerk, tracker, timeline, faults>>

TrackStarts ==
    /\ tracker = "none" /\ shipment.status \in OPEN_SHIPMENT
    /\ tracker' = shipment.status
    /\ UNCHANGED <<order, carrier, shipment, clerk, timeline, faults>>

\* `combine_statuses`: delivered when all arrived, otherwise as far as the last one.
Combined(states) ==
    IF states = {"delivered"} THEN "delivered"
    ELSE IF "bought" \in states THEN "purchased" ELSE "posted"

Stamps(n) == CASE ~carrier.stamped               -> {}
               [] carrier.volume[n] = "posted"    -> {<<n, "posted">>}
               [] carrier.volume[n] = "delivered" -> {<<n, "posted">>, <<n, "delivered">>}
               [] OTHER                           -> {}

\* `_deliver_order`.
OrderAfter_Moving(next) ==           \* mutant: only a shipment seen on its way
    IF next = "delivered" /\ tracker = "posted" /\ order = "shipped" THEN "delivered" ELSE order
OrderAfter(next) == IF next = "delivered" /\ order = "shipped" THEN "delivered" ELSE order

\* An event that is already there undoes the whole pass (`_record` rolls the session back and
\* what follows cannot be read); otherwise the row, if it moved, its events and the order.
TrackEnds ==
    LET told == UNION {Stamps(n) : n \in Volumes}
        next == Combined({carrier.volume[n] : n \in Volumes})
    IN  /\ tracker # "none" /\ tracker' = "none" /\ ~Held
        /\ IF told \cap timeline = {}
           THEN /\ timeline' = timeline \cup told
                /\ shipment' = [shipment EXCEPT !.status = IF next # tracker THEN next ELSE @]
                /\ order' = OrderAfter(next)
           ELSE UNCHANGED <<timeline, shipment, order>>
        /\ UNCHANGED <<carrier, clerk, faults>>

-----------------------------------------------------------------------------
ShipmentInit ==
    /\ order = "in_production" /\ shipment = NoRow /\ tracker = "none" /\ timeline = {} /\ faults = 0
    /\ carrier \in [mode : Modes, stamped : Stamped, bought : {[n \in 1..2 |-> 0]},
                    lost : {[n \in 1..2 |-> 0]}, volume : {[n \in 1..2 |-> "bought"]}]
    /\ clerk = [c \in Clerks |-> Gone]

ShipmentNext ==
    \/ \E c \in Clerks : Opens(c) \/ TakesRow(c) \/ Buys(c) \/ Finishes(c) \/ Crashes(c)
    \/ TenMinutes \/ CancelOrder \/ TrackStarts \/ TrackEnds
    \/ \E n \in 1..2 : CarrierMoves(n)

ShipmentSpec == ShipmentInit /\ [][ShipmentNext]_shipmentVars

\* The beat tracks every open shipment.
ShipmentFair == WF_shipmentVars(TrackStarts) /\ WF_shipmentVars(TrackEnds)

-----------------------------------------------------------------------------
\* One request after the other, a volume is paid twice only when the answer of the first time or
\* the worker that had it was lost: a retry buys what is missing, whatever failed before.
LabelsBoughtOnce == \A n \in Volumes : carrier.bought[n] <= 1 + carrier.lost[n]

\* A tracked order whose volumes have all arrived.
Arrived ==
    /\ shipment.status \in OPEN_SHIPMENT /\ order = "shipped"
    /\ \A n \in Volumes : carrier.volume[n] = "delivered"
Undated == ~carrier.stamped
Closed == order \in {"delivered", "cancelled"}

\* Once every volume was delivered the order is closed by itself, when the carrier's tracking
\* carries no dated event and nobody cancelled.
DeliveredClosesOrder == (Undated /\ Arrived) ~> Closed
=============================================================================
