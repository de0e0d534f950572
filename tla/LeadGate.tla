------------------------------- MODULE LeadGate -------------------------------
(***************************************************************************)
(* Who a number is in a closed store: the numbers the store saw each       *)
(* customer use (customers/phones.py), the access it gives                 *)
(* (access_service), the gate that lets the sales robot answer a message   *)
(* (lead_gate.py) and the release asked for by number (release.py).        *)
(***************************************************************************)
EXTENDS Integers, Sequences, SequencesExt

CONSTANTS
    Accounts,        \* customers who sign in
    Leads,           \* customers that a message may create
    Numbers

People == Accounts \cup Leads
NoNumber == "none"

VARIABLES
    person,       \* who exists, its number and whether it is confirmed
    seen,         \* the people the store saw use each number, the last first
    access,       \* what the store decided of each
    turned        \* numbers the gate did not answer

gateVars == <<person, seen, access, turned>>

AccessStatus == {"pending", "approved", "blocked", "revoked"}

\* `remember_phone`: the row of the pair is the last one seen.
Place(s, p) == IF Contains(s, p) THEN CHOOSE i \in DOMAIN s : s[i] = p ELSE Len(s) + 1
ToFront(s, p) ==
    [i \in 1..Len(s) \cup {Place(s, p)} |->
        IF i = 1 THEN p ELSE IF i <= Place(s, p) THEN s[i - 1] ELSE s[i]]
Seen(p, n) == [seen EXCEPT ![n] = ToFront(@, p)]

\* The account of a customer confirms a number, which leaves any other (customers/phone, in Phones).
Proves(p, n) ==
    /\ p \in Accounts
    /\ person' = [q \in People |->
          IF q = p THEN [exists |-> TRUE, number |-> n, verified |-> TRUE]
          ELSE IF person[q].number = n THEN [person[q] EXCEPT !.verified = FALSE]
          ELSE person[q]]
    /\ seen' = Seen(p, n)
    /\ UNCHANGED <<access, turned>>

\* A checkout writes down the number that was typed (orders/service, `place`).
Checkout(p, n) ==
    /\ person[p].exists
    /\ seen' = Seen(p, n) /\ seen' # seen
    /\ UNCHANGED <<person, access, turned>>

\* `decide`: a row is made for who passed by this store, if it is to be approved.
TRANSITIONS == [pending  |-> {"approved", "blocked"},
                approved |-> {"revoked", "blocked"},
                revoked  |-> {"approved", "blocked"},
                blocked  |-> {"approved", "revoked"}]
KnownHere(p) == \E n \in Numbers : Contains(seen[n], p)
Decide(p, to) ==
    /\ IF access[p] = "none" THEN to = "approved" /\ KnownHere(p) ELSE to \in TRANSITIONS[access[p]]
    /\ access' = [access EXCEPT ![p] = to]
    /\ UNCHANGED <<person, seen, turned>>

\* `request`: who is not approved, blocked or waiting asks.
RequestAccess(p) ==
    /\ p \in Accounts /\ access[p] \in {"none", "revoked"}
    /\ access' = [access EXCEPT ![p] = "pending"]
    /\ UNCHANGED <<person, seen, turned>>

-----------------------------------------------------------------------------
\* `_customer_for`: who has the number, confirmed before typed, or a new customer.
Candidates(n) ==
    LET holders == {p \in People : person[p].exists /\ person[p].number = n}
        proven  == {p \in holders : person[p].verified}
    IN  IF proven # {} THEN proven
        ELSE IF holders # {} THEN holders
        ELSE {p \in Leads : ~person[p].exists}
Made(p, n) == IF person[p].exists THEN person
              ELSE [person EXCEPT ![p] = [exists |-> TRUE, number |-> n, verified |-> FALSE]]

\* `_ensure_pending`
EnsurePending_OnlyNew(p, isNew) == IF isNew THEN [access EXCEPT ![p] = "pending"] ELSE access \* mutant
EnsurePending(p, isNew) == IF access[p] = "none" THEN [access EXCEPT ![p] = "pending"] ELSE access

\* Who was seen with the number and is so; of them, the last one seen.
With(n, status) == {i \in DOMAIN seen[n] : access[seen[n][i]] = status}
LastSeen(n, status) == seen[n][Min(With(n, status))]
\* `lead_gate`, of a number the store saw: an approved customer is answered, unless one of them is
\* blocked; otherwise the last one seen waits for the store.
GateKnows(n) ==
    /\ seen[n] # <<>>
    /\ IF With(n, "blocked") # {}
       THEN turned' = turned \cup {n} /\ UNCHANGED <<seen, access>>
       ELSE IF With(n, "approved") # {}
       THEN seen' = Seen(LastSeen(n, "approved"), n) /\ UNCHANGED <<turned, access>>
       ELSE /\ turned' = turned \cup {n}
            /\ access' = EnsurePending(seen[n][1], FALSE)
            /\ UNCHANGED seen
    /\ UNCHANGED person
\* ... and of one it did not: the customer of the number, or a new one, waits.
GateMeets(n) ==
    /\ seen[n] = <<>>
    /\ \E p \in Candidates(n) :
          /\ person' = Made(p, n)
          /\ seen' = Seen(p, n)
          /\ access' = EnsurePending(p, ~person[p].exists)
          /\ turned' = IF access[p] = "approved" THEN turned ELSE turned \cup {n}

\* `release_by_phone`: of the people seen with the number, the one that has most to do with it.
Picked(n) ==
    IF With(n, "approved") # {} THEN LastSeen(n, "approved")
    ELSE IF With(n, "pending") # {} THEN LastSeen(n, "pending")
    ELSE IF With(n, "revoked") # {} THEN LastSeen(n, "revoked")
    ELSE seen[n][1]
Release(n) ==
    \E p \in IF seen[n] # <<>> THEN {Picked(n)} ELSE Candidates(n) :
        /\ person' = Made(p, n)
        /\ seen' = Seen(p, n)
        /\ access' = [access EXCEPT ![p] = "approved"]
        /\ UNCHANGED turned
Unrelease(n) ==
    /\ seen[n] # <<>>
    /\ seen' = Seen(Picked(n), n)
    /\ access' = IF access[Picked(n)] = "approved"
                 THEN [access EXCEPT ![Picked(n)] = "revoked"] ELSE access
    /\ UNCHANGED <<person, turned>>

GateInit ==
    /\ person = [p \in People |-> [exists |-> p \in Accounts, number |-> NoNumber, verified |-> FALSE]]
    /\ seen = [n \in Numbers |-> <<>>]
    /\ access = [p \in People |-> "none"]
    /\ turned = {}

GateNext ==
    \/ \E p \in People : \/ RequestAccess(p)
                         \/ \E n \in Numbers : Proves(p, n) \/ Checkout(p, n)
                         \/ \E to \in AccessStatus : Decide(p, to)
    \/ \E n \in Numbers : GateKnows(n) \/ GateMeets(n) \/ Release(n) \/ Unrelease(n)

-----------------------------------------------------------------------------
\* Whoever the robot did not answer is somebody the store can release: a customer it saw with this
\* number, with a row of access, however it came to be known.
TurnedCanBeReleased ==
    \A n \in turned : \E p \in People : Contains(seen[n], p) /\ access[p] # "none"
=============================================================================
