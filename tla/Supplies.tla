-------------------------------- MODULE Supplies --------------------------------
(***************************************************************************)
(* What the store makes things of (production/service.py, costing.py):     *)
(* purchases, losses, counts and corrections move the balance of a supply  *)
(* under its lock, line by line, and only a priced purchase moves its      *)
(* average cost.  A request of several lines holds the locks it took until *)
(* it commits; two may wait for each other, and the database aborts one.   *)
(***************************************************************************)
EXTENDS Integers, FiniteSets, Sequences, SequencesExt

CONSTANTS
    Supplies,
    Clerks,
    Receipts,     \* sets of lines <<quantity, total paid>>, 0 when the price is not known
    Changes,      \* quantities of a loss or a correction
    Counts,       \* quantities of a count
    MaxMoves,     \* bound: movements of a behaviour
    Unpriced      \* the cost of a supply never bought at a price

VARIABLES
    supply,       \* balance and average cost, as committed
    ledger,       \* the movements of each, oldest first
    paid,         \* observed only: the unit costs paid for each
    desk          \* what each clerk's request in flight still has to do, and what it wrote

suppliesVars == <<supply, ledger, paid, desk>>

Idle == [kind |-> "idle", lines |-> <<>>, wrote |-> <<>>]

\* Python's `round` of a quotient: the tie goes to the even one.
Rounded(a, b) ==
    LET down == a \div b twice == 2 * (a % b)
    IN IF twice > b \/ (twice = b /\ down % 2 = 1) THEN down + 1 ELSE down

UnitCost(total, qty) == IF total = 0 THEN Unpriced ELSE Rounded(total, qty)

\* A bug: the balance weighs the old cost even when it is in debt.
MovingAverage_Debt(onHand, avg, qty, cost) ==
    IF cost = Unpriced THEN avg
    ELSE IF avg = Unpriced \/ onHand + qty = 0 THEN cost
    ELSE Rounded(onHand * avg + qty * cost, onHand + qty)
\* With no history, or in debt, the price of this purchase is the truth.
MovingAverage(onHand, avg, qty, cost) ==
    IF cost = Unpriced THEN avg
    ELSE IF avg = Unpriced \/ onHand <= 0 THEN cost
    ELSE Rounded(onHand * avg + qty * cost, onHand + qty)

-----------------------------------------------------------------------------
\* `_locked`: who wrote a supply holds it; its balance is read under the lock.
Holds(c, s) == \E i \in DOMAIN desk[c].wrote : desk[c].wrote[i].supply = s
Seen(c, s) ==
    LET mine == {i \in DOMAIN desk[c].wrote : desk[c].wrote[i].supply = s}
    IN IF mine = {} THEN supply[s]
       ELSE LET w == desk[c].wrote[CHOOSE i \in mine : \A j \in mine : j <= i]
            IN [onHand |-> w.after, avg |-> w.avg]
Pending == FoldSet(LAMBDA c, n : n + Len(desk[c].lines) + Len(desk[c].wrote), 0, Clerks)
Recorded == FoldSet(LAMBDA s, n : n + Len(ledger[s]), 0, Supplies)

\* The request arrives with its lines; a count may not be negative, and no line is zero.
Asks(c, kind, lines) ==
    /\ desk[c] = Idle
    /\ Pending + Recorded + Len(lines) <= MaxMoves
    /\ desk' = [desk EXCEPT ![c] = [kind |-> kind, lines |-> lines, wrote |-> <<>>]]
    /\ UNCHANGED <<supply, ledger, paid>>

\* One line: lock, average, `_move`.
Moves(c) ==
    LET d == desk[c] line == Head(d.lines) seen == Seen(c, line.supply)
        cost == IF d.kind = "receipt" THEN UnitCost(line.total, line.qty) ELSE Unpriced
        qty == IF d.kind = "count" THEN line.qty - seen.onHand ELSE line.qty
        write == [supply |-> line.supply, qty |-> qty, after |-> seen.onHand + qty, cost |-> cost,
                  avg |-> MovingAverage(seen.onHand, seen.avg, qty, cost)]
    IN /\ d.lines # <<>>
       /\ \A o \in Clerks \ {c} : ~Holds(o, line.supply)
       /\ desk' = [desk EXCEPT ![c].lines = Tail(@),
                               ![c].wrote = IF qty = 0 THEN @ ELSE Append(@, write)]
       /\ UNCHANGED <<supply, ledger, paid>>

Of(wrote, s) == SelectSeq(wrote, LAMBDA w : w.supply = s)
Commits(c) ==
    LET mine(s) == Of(desk[c].wrote, s)
    IN /\ desk[c] # Idle /\ desk[c].lines = <<>>
       /\ supply' = [s \in Supplies |-> Seen(c, s)]
       /\ ledger' = [s \in Supplies |->
                        ledger[s] \o [i \in DOMAIN mine(s) |-> [qty |-> mine(s)[i].qty,
                                                                after |-> mine(s)[i].after]]]
       /\ paid' = [s \in Supplies |-> 
                    (paid[s] \cup {mine(s)[i].cost : i \in DOMAIN mine(s)}) \ {Unpriced}]
       /\ desk' = [desk EXCEPT ![c] = Idle]

\* A supply that does not exist, a deadlock, a lost connection: nothing of it is kept.
Aborts(c) ==
    /\ desk[c] # Idle
    /\ desk' = [desk EXCEPT ![c] = Idle]
    /\ UNCHANGED <<supply, ledger, paid>>

-----------------------------------------------------------------------------
SuppliesInit ==
    /\ supply = [s \in Supplies |-> [onHand |-> 0, avg |-> Unpriced]]
    /\ ledger = [s \in Supplies |-> <<>>]
    /\ paid = [s \in Supplies |-> {}]
    /\ desk = [c \in Clerks |-> Idle]

Lines(set) == {<<l>> : l \in set} \cup (set \X set)
BoughtLines == {[supply |-> s, qty |-> r[1], total |-> r[2]] : s \in Supplies, r \in Receipts}
MovedLines(qtys) == {[supply |-> s, qty |-> q] : s \in Supplies, q \in qtys}

SuppliesNext ==
    \E c \in Clerks :
        \/ \E lines \in Lines(BoughtLines) : Asks(c, "receipt", lines)
        \/ \E lines \in Lines(MovedLines(Changes)) : Asks(c, "adjust", lines)
        \/ \E lines \in Lines(MovedLines(Counts)) : Asks(c, "count", lines)
        \/ Moves(c) \/ Commits(c) \/ Aborts(c)

-----------------------------------------------------------------------------
\* The ledger explains the balance, movement by movement (`audit` comes back empty), and the
\* average cost stays between the prices paid, whatever the debts in between (production).
LedgerAddsUp ==
    \A s \in Supplies :
        /\ \A i \in DOMAIN ledger[s] :
              ledger[s][i].after = ledger[s][i].qty + (IF i = 1 THEN 0 ELSE ledger[s][i - 1].after)
        /\ supply[s].onHand = IF ledger[s] = <<>> THEN 0 ELSE Last(ledger[s]).after
AverageIsPaid ==
    \A s \in Supplies :
        IF paid[s] = {} THEN supply[s].avg = Unpriced
        ELSE /\ \E p \in paid[s] : p <= supply[s].avg
             /\ \E p \in paid[s] : supply[s].avg <= p
=============================================================================
