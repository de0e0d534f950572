-------------------------------- MODULE Phones --------------------------------
(***************************************************************************)
(* The phone number an account confirms by WhatsApp (customers/phone.py):  *)
(* the customer asks for a link, sends its text from the number, and the   *)
(* number leaves whoever had it.  Links and confirmations read and write   *)
(* without a lock, so each is two steps.                                   *)
(***************************************************************************)
EXTENDS Naturals, FiniteSets, Sequences, SequencesExt

CONSTANTS
    Accounts,        \* customers who sign in
    Numbers,
    Requests,        \* links and confirmations that can be handled at once
    MAX_PER_WINDOW   \* links a customer may start in the window a behaviour lasts

VARIABLES
    holder,       \* the number of each customer and whether it is confirmed
    challenges,   \* the links to WhatsApp, oldest first
    request,      \* what each request in flight has read
    crossed       \* two starts of one customer, or two confirmations, overlapped

phonesVars == <<holder, challenges, request, crossed>>

NoNumber == "none"
Free == [at |-> "free"]
Late(r, what) == [s \in Requests |->
                    IF s = r THEN Free
                    ELSE IF request[s].at = what THEN [request[s] EXCEPT !.late = TRUE]
                    ELSE request[s]]

Mine(p) == {i \in DOMAIN challenges : challenges[i].person = p}

\* `start`: the older challenges of the customer expire ...
Starts(r, p, n) ==
    /\ request[r] = Free
    /\ Cardinality(Mine(p)) < MAX_PER_WINDOW
    /\ challenges' = [i \in DOMAIN challenges |->
          IF i \in Mine(p) /\ ~challenges[i].spent THEN [challenges[i] EXCEPT !.live = FALSE]
                                                   ELSE challenges[i]]
    /\ request' = [request EXCEPT ![r] = [at |-> "start", person |-> p, number |-> n, late |-> FALSE]]
    /\ UNCHANGED <<holder, crossed>>
\* ... and the new one is committed.
Started(r) ==
    /\ request[r].at = "start"
    /\ challenges' = Append(challenges, [person |-> request[r].person, number |-> request[r].number,
                                         spent |-> FALSE, live |-> TRUE])
    /\ request' = Late(r, "start")
    /\ crossed' = (crossed \/ request[r].late)
    /\ UNCHANGED holder

\* Its time runs out, or the message comes from another number and nothing changes.
Ages(i) ==
    /\ challenges[i].live
    /\ challenges' = [challenges EXCEPT ![i].live = FALSE]
    /\ UNCHANGED <<holder, request, crossed>>

\* `confirm`: the challenge is spent by a conditional UPDATE, whoever had the number is read ...
Owners_None(p, n) == {}                     \* mutant
Owners(p, n) == {q \in Accounts \ {p} : holder[q].verified /\ holder[q].number = n}
Confirms(r, i) ==
    LET c == challenges[i]
    IN  /\ request[r] = Free
        /\ c.live /\ ~c.spent
        /\ challenges' = [challenges EXCEPT ![i].spent = TRUE]
        /\ request' = [request EXCEPT ![r] =
              [at |-> "confirm", person |-> c.person, number |-> c.number,
               owners |-> Owners(c.person, c.number), late |-> FALSE]]
        /\ UNCHANGED <<holder, crossed>>

\* ... and loses it to the customer of the challenge.
Confirmed(r) ==
    LET q == request[r]
    IN  /\ q.at = "confirm"
        /\ holder' = [p \in Accounts |->
              CASE p = q.person  -> [number |-> q.number, verified |-> TRUE]
                [] p \in q.owners -> [holder[p] EXCEPT !.verified = FALSE]
                [] OTHER          -> holder[p]]
        /\ request' = Late(r, "confirm")
        /\ crossed' = (crossed \/ q.late)
        /\ UNCHANGED challenges

PhonesInit ==
    /\ holder = [p \in Accounts |-> [number |-> NoNumber, verified |-> FALSE]]
    /\ challenges = <<>>
    /\ request = [r \in Requests |-> Free]
    /\ crossed = FALSE

PhonesNext ==
    \/ \E r \in Requests :
          \/ Started(r) \/ Confirmed(r)
          \/ \E p \in Accounts, n \in Numbers : Starts(r, p, n)
          \/ \E i \in DOMAIN challenges : Confirms(r, i)
    \/ \E i \in DOMAIN challenges : Ages(i)

-----------------------------------------------------------------------------
\* A number is confirmed for one customer, whoever proved it last; and one link of a customer is
\* good, the newest.  Starts of one customer, or confirmations, that overlap do not see one
\* another and escape both.
NumberHasOneOwner ==
    crossed \/ \A p, q \in {r \in Accounts : holder[r].verified} :
                   holder[p].number = holder[q].number => p = q
NewestLinkOnly ==
    crossed \/ \A i, j \in {k \in DOMAIN challenges : challenges[k].live /\ ~challenges[k].spent} :
                   challenges[i].person = challenges[j].person => i = j
=============================================================================
